---- MODULE Spec2Model ----
(***************************************************************************)
(* gorlock: the control loop of src/main.rs (one select! loop that applies *)
(* key events, DownloadActions and AppEvents one at a time), the input     *)
(* layer of src/ui/events.rs, and the background tasks the loop spawns     *)
(* (URL probes, format probes, download tasks and their progress           *)
(* forwarders); the ParallelPlaylistProcessor of                           *)
(* src/commands/parallel_processor.rs and the CacheStore of src/cache.rs,  *)
(* which the loop does not call and which are run on their own.            *)
(*                                                                         *)
(* Option<T> is a sequence of length 0 (None) or 1 (Some).  Strings that   *)
(* the code parses are sequences of one-character strings.  Uuids are      *)
(* natural numbers handed out by a counter (never reused).  A JoinHandle   *)
(* is the index of its task in `tasks`.                                    *)
(***************************************************************************)
EXTENDS Integers, Sequences, FiniteSets, TLC

VARIABLES
    state,          \* AppState (src/app_state/mod.rs)
    action_rx,      \* the DownloadAction channel, input layer -> control loop
    app_rx,         \* the AppEvent channel, background tasks -> control loop
    next_id,        \* source of fresh Uuids
    url_probes,     \* the tasks spawned by AddUrl
    fetch_probes,   \* the tasks spawned by FetchFormats, in flight, per item id
    work,           \* units of the work budget used so far (see MaxWork)
    tasks,          \* the download tasks spawned by StartDownload
    max_concurrency, \* ParallelPlaylistProcessor.max_concurrency
    semaphore,      \* ParallelPlaylistProcessor.semaphore: the permits available
    workers,        \* the tasks spawned by the ParallelPlaylistProcessor
    batch,          \* the call of process_playlist_formats
    lim_tx,         \* the AppEvents each task of the processor has sent
    cache_entries,  \* CacheStore.entries: url -> CachedEntry
    now,            \* SystemTime::now(), in seconds
    got,            \* what the latest call of CacheStore::get has returned
    cache_file,     \* the file metadata_cache.json
    cache_jobs,     \* the spawn_blocking jobs of CacheStore::set that have not run
    cache_writers,  \* the jobs that hold the read lock and are writing the file
    cache_status,   \* the CACHE cell of the process: unset, running or panicked
    fetch_url,      \* the url fetch_url_info_concurrent is called with
    video_fetch,    \* its task running fetch_video_info_fast under a timeout
    playlist_fetch, \* its task running fetch_playlist_entries_fast under a timeout
    url_info        \* what fetch_url_info_concurrent has returned

loop_vars == <<state, action_rx, app_rx, next_id, url_probes, fetch_probes,
               work, tasks>>

limiter_vars == <<max_concurrency, semaphore, workers, batch, lim_tx>>

cache_vars == <<cache_entries, now, got, cache_file, cache_jobs, cache_writers,
                cache_status>>

fetch_vars == <<fetch_url, video_fetch, playlist_fetch, url_info>>

vars == <<loop_vars, limiter_vars, cache_vars, fetch_vars>>

-----------------------------------------------------------------------------
(* Bounds of the model *)

\* The work a run may ask for, in units: one for every AddUrl, FetchFormats,
\* PauseDownload and ResumeDownload action the user sends, one for every entry
\* the external tool lists for a submitted URL and one for every progress line a
\* download reports.  The other actions need no budget: a StartDownload needs a
\* format popup, which needs a FetchFormats; a RemoveItem needs an item; and the
\* user sends no CancelDownload for an item while one for it still waits in the
\* channel.
MaxWork == 4

-----------------------------------------------------------------------------
(* Option and sequence helpers *)

None == <<>>

Some(x) == <<x>>

IsSome(o) == Len(o) = 1

Unwrap(o) == o[1]

Max(a, b) == IF a >= b THEN a ELSE b

RemoveAt(q, i) == [j \in 1..(Len(q) - 1) |-> IF j < i THEN q[j] ELSE q[j + 1]]

-----------------------------------------------------------------------------
(* Duration strings *)

Digits == <<"0", "1", "2", "3", "4", "5", "6", "7", "8", "9">>

IsDigit(c) == \E d \in 1..10 : Digits[d] = c

DigitValue(c) == (CHOOSE d \in 1..10 : Digits[d] = c) - 1

RECURSIVE DigitsValue(_)
DigitsValue(s) ==
    IF Len(s) = 0 THEN 0
    ELSE 10 * DigitsValue(SubSeq(s, 1, Len(s) - 1)) + DigitValue(s[Len(s)])

\* str::parse::<u64>: an optional '+', then one or more ASCII digits.  The
\* inputs of the model stay far below 2^64, so the overflow error is not modelled.
parse_u64(s) ==
    LET body == IF Len(s) > 0 /\ s[1] = "+" THEN Tail(s) ELSE s
    IN  IF Len(body) > 0 /\ \A i \in 1..Len(body) : IsDigit(body[i])
        THEN Some(DigitsValue(body))
        ELSE None

\* str::split(':'): the parts between the colons (always at least one part)
RECURSIVE SplitColon(_)
SplitColon(s) ==
    IF \A i \in 1..Len(s) : s[i] # ":"
    THEN <<s>>
    ELSE LET k == CHOOSE i \in 1..Len(s) : s[i] = ":" /\ \A j \in 1..(i - 1) : s[j] # ":"
         IN  <<SubSeq(s, 1, k - 1)>> \o SplitColon(SubSeq(s, k + 1, Len(s)))

parse_duration_to_seconds(duration) ==
    LET parts == SplitColon(duration)
        n == [i \in 1..Len(parts) |-> parse_u64(parts[i])]
    IN  IF Len(parts) = 1 THEN n[1]
        ELSE IF Len(parts) = 2
        THEN IF IsSome(n[1]) /\ IsSome(n[2])
             THEN Some(Unwrap(n[1]) * 60 + Unwrap(n[2]))
             ELSE None
        ELSE IF Len(parts) = 3
        THEN IF IsSome(n[1]) /\ IsSome(n[2]) /\ IsSome(n[3])
             THEN Some(Unwrap(n[1]) * 3600 + Unwrap(n[2]) * 60 + Unwrap(n[3]))
             ELSE None
        ELSE None

\* the decimal text of a u64 ({} in format!)
RECURSIVE ToDecimal(_)
ToDecimal(n) ==
    IF n < 10 THEN <<Digits[n + 1]>>
    ELSE ToDecimal(n \div 10) \o <<Digits[(n % 10) + 1]>>

\* format_duration_from_seconds, had it had no branch for the hours
format_duration_from_seconds_NoHours(total_seconds) ==
    LET minutes == total_seconds \div 60
        seconds == total_seconds % 60
    IN  IF minutes > 0
        THEN ToDecimal(minutes) \o <<"m", " ">> \o ToDecimal(seconds) \o <<"s">>
        ELSE ToDecimal(seconds) \o <<"s">>

format_duration_from_seconds(total_seconds) ==
    LET hours == total_seconds \div 3600
        minutes == (total_seconds % 3600) \div 60
        seconds == total_seconds % 60
    IN  IF hours > 0
        THEN ToDecimal(hours) \o <<"h", " ">> \o ToDecimal(minutes) \o <<"m", " ">>
             \o ToDecimal(seconds) \o <<"s">>
        ELSE IF minutes > 0
        THEN ToDecimal(minutes) \o <<"m", " ">> \o ToDecimal(seconds) \o <<"s">>
        ELSE ToDecimal(seconds) \o <<"s">>

-----------------------------------------------------------------------------
(* What the external tool (yt-dlp) may answer *)

Entry1 == [url |-> "u1", title |-> "t1", duration |-> Some(<<"1", ":", "0", "2">>)]

Entry2 == [url |-> "u2", title |-> "t2", duration |-> None]

\* Ok(entries) of fetch_playlist_entries: no entry, one entry, a playlist
Listings == {<<>>, <<Entry1>>, <<Entry1, Entry2>>}

FormatVideo == [format_id |-> "137", is_audio_only |-> FALSE]

FormatAudio == [format_id |-> "140", is_audio_only |-> TRUE]

\* Ok((formats, title, duration)) of fetch_formats
FetchedInfo == [formats |-> <<FormatVideo, FormatAudio>>, title |-> "tf",
                duration |-> Some(<<"6", "2">>)]

\* every Uuid a run can hand out
Ids == 1..MaxWork

-----------------------------------------------------------------------------
(* AppState *)

DownloadItem_new(id, url) ==
    [id |-> id, url |-> url, title |-> None, duration |-> None, format |-> None,
     status |-> "Pending", progress |-> 0, error |-> None]

\* current_panel and output_dir are left out: nothing the loop decides reads
\* them.  url_input is left out too: see handle_input_mode.
AppState_default ==
    [queue |-> <<>>, selected_index |-> 0, input_mode |-> FALSE, error_message |-> None, running_tasks |-> <<>>,
     should_quit |-> FALSE, format_popup |-> None, is_loading |-> FALSE,
     loading_message |-> None, playlist_preview |-> None]

\* state.queue.iter_mut().find(|i| i.id == id)
HasItem(q, id) == \E i \in 1..Len(q) : q[i].id = id

FindItem(q, id) ==
    CHOOSE i \in 1..Len(q) : q[i].id = id /\ \A j \in 1..(i - 1) : q[j].id # id

\* HashMap::insert / HashMap::remove on running_tasks
MapInsert(m, k, v) == [x \in (DOMAIN m) \cup {k} |-> IF x = k THEN v ELSE m[x]]

MapRemove(m, k) == [x \in (DOMAIN m) \ {k} |-> m[x]]

-----------------------------------------------------------------------------
(* The DownloadActions and AppEvents *)

AddUrl(url) == [type |-> "AddUrl", url |-> url]

StartDownload(id) == [type |-> "StartDownload", id |-> id]

PauseDownload(id) == [type |-> "PauseDownload", id |-> id]

ResumeDownload(id) == [type |-> "ResumeDownload", id |-> id]

CancelDownload(id) == [type |-> "CancelDownload", id |-> id]

RemoveItem(id) == [type |-> "RemoveItem", id |-> id]

FetchFormats(id) == [type |-> "FetchFormats", id |-> id]

\* `task` names the download task that produced the event; the code's events
\* carry the item id only, and no handler reads `task`
ProgressUpdate(id, progress, task) ==
    [type |-> "ProgressUpdate", id |-> id, progress |-> progress, task |-> task]

DownloadCompleted(id, task) == [type |-> "DownloadCompleted", id |-> id, task |-> task]

DownloadFailed(id, error, task) ==
    [type |-> "DownloadFailed", id |-> id, error |-> error, task |-> task]

FormatsFetched(id, info) ==
    [type |-> "FormatsFetched", id |-> id, formats |-> info.formats,
     title |-> info.title, duration |-> info.duration]

FormatsFetchFailed(id, error) ==
    [type |-> "FormatsFetchFailed", id |-> id, error |-> error]

PlaylistDetected(entries) == [type |-> "PlaylistDetected", entries |-> entries]

SingleVideoDetected(e) ==
    [type |-> "SingleVideoDetected", url |-> e.url, title |-> e.title,
     duration |-> e.duration]

PlaylistFetchFailed(error) == [type |-> "PlaylistFetchFailed", error |-> error]

-----------------------------------------------------------------------------
(* The input layer: src/ui/events.rs.  A handler maps a key and the state  *)
(* to the new state, the actions it sends and the next fresh Uuid.         *)

\* The keys the user presses.  'k' and 'j' are Up and Down, Tab changes the
\* panel only.  Enter in input mode is EnterUrl when url_input.trim() is not
\* empty and EnterBlank when it is: the characters typed before are not kept.
KeyCodes == {"CtrlC", "Enter", "EnterUrl", "EnterBlank", "Esc", "Up", "Down",
             "q", "i", "f", "d", "p", "c", "t"}

Handled(s, sent, nid) == [state |-> s, sent |-> sent, next_id |-> nid]

SelectedItem(s) ==
    IF s.selected_index < Len(s.queue) THEN Some(s.queue[s.selected_index + 1]) ELSE None

prefetch_formats_for_selected_item(s) ==
    LET item == SelectedItem(s)
    IN  IF IsSome(item) /\ Unwrap(item).status = "Pending"
        THEN <<FetchFormats(Unwrap(item).id)>>
        ELSE <<>>

\* Char, Backspace and Delete edit url_input and nothing else; Enter reads it.
\* The user can type any text before Enter, so Enter finds either case.
handle_input_mode(key, s, nid) ==
    IF key = "EnterUrl"
    THEN Handled([s EXCEPT !.is_loading = TRUE,
                           !.loading_message = Some("Fetching video information..."),
                           !.input_mode = FALSE],
                 <<AddUrl("url")>>, nid)
    ELSE IF key \in {"EnterBlank", "Esc"}
    THEN Handled([s EXCEPT !.input_mode = FALSE], <<>>, nid)
    ELSE Handled(s, <<>>, nid)

\* handle_navigation_mode for the keys that move or delete, had 'd' left the
\* cursor where it was
handle_navigation_mode_NoClamp(key, s, nid) ==
    IF key = "Up"
    THEN IF Len(s.queue) # 0 /\ s.selected_index > 0
         THEN Handled([s EXCEPT !.selected_index = s.selected_index - 1], <<>>, nid)
         ELSE Handled(s, <<>>, nid)
    ELSE IF key = "Down"
    THEN IF Len(s.queue) # 0 /\ s.selected_index < Len(s.queue) - 1
         THEN Handled([s EXCEPT !.selected_index = s.selected_index + 1], <<>>, nid)
         ELSE Handled(s, <<>>, nid)
    ELSE IF key = "i"
    THEN Handled([s EXCEPT !.input_mode = TRUE], <<>>, nid)
    ELSE IF key = "d" /\ Len(s.queue) # 0
    THEN Handled([s EXCEPT !.queue = RemoveAt(s.queue, s.selected_index + 1)],
                 <<RemoveItem(s.queue[s.selected_index + 1].id)>>, nid)
    ELSE Handled(s, <<>>, nid)

handle_navigation_mode(key, s, nid) ==
    LET item == SelectedItem(s)
    IN  IF key = "q"
        THEN Handled([s EXCEPT !.should_quit = TRUE], <<>>, nid)
        ELSE IF key = "i"
        THEN Handled([s EXCEPT !.input_mode = TRUE], <<>>, nid)
        ELSE IF key = "Up"
        THEN IF Len(s.queue) # 0 /\ s.selected_index > 0
             THEN LET s2 == [s EXCEPT !.selected_index = s.selected_index - 1]
                  IN  Handled(s2, prefetch_formats_for_selected_item(s2), nid)
             ELSE Handled(s, <<>>, nid)
        ELSE IF key = "Down"
        THEN IF Len(s.queue) # 0 /\ s.selected_index < Len(s.queue) - 1
             THEN LET s2 == [s EXCEPT !.selected_index = s.selected_index + 1]
                  IN  Handled(s2, prefetch_formats_for_selected_item(s2), nid)
             ELSE Handled(s, <<>>, nid)
        ELSE IF key = "f"
        THEN IF IsSome(item) /\ Unwrap(item).status \in {"Pending", "Ready", "Failed"}
             THEN Handled(s, <<FetchFormats(Unwrap(item).id)>>, nid)
             ELSE Handled(s, <<>>, nid)
        ELSE IF key = "d"
        THEN IF Len(s.queue) # 0
             THEN LET removed == s.queue[s.selected_index + 1]
                      q2 == RemoveAt(s.queue, s.selected_index + 1)
                  IN  Handled([s EXCEPT !.queue = q2,
                                        !.selected_index =
                                            IF s.selected_index >= Len(q2) /\ Len(q2) # 0
                                            THEN Len(q2) - 1
                                            ELSE s.selected_index],
                              <<RemoveItem(removed.id)>>, nid)
             ELSE Handled(s, <<>>, nid)
        ELSE IF key = "p"
        THEN IF IsSome(item) /\ Unwrap(item).status = "Downloading"
             THEN Handled(s, <<PauseDownload(Unwrap(item).id)>>, nid)
             ELSE IF IsSome(item) /\ Unwrap(item).status = "Paused"
             THEN Handled(s, <<ResumeDownload(Unwrap(item).id)>>, nid)
             ELSE Handled(s, <<>>, nid)
        ELSE IF key = "c"
        THEN IF IsSome(item) /\ Unwrap(item).status \in {"Downloading", "Paused"}
             THEN Handled(s, <<CancelDownload(Unwrap(item).id)>>, nid)
             ELSE Handled(s, <<>>, nid)
        ELSE Handled(s, <<>>, nid)

IsShown(popup, format) == IF popup.audio_only_filter THEN format.is_audio_only ELSE TRUE

handle_format_popup_input(key, s, nid) ==
    LET popup == Unwrap(s.format_popup)
        filtered_formats == SelectSeq(popup.formats, LAMBDA f : IsShown(popup, f))
    IN  IF key = "Up"
        THEN IF popup.selected_index > 0
             THEN Handled([s EXCEPT !.format_popup =
                              Some([popup EXCEPT !.selected_index = popup.selected_index - 1])],
                          <<>>, nid)
             ELSE Handled(s, <<>>, nid)
        ELSE IF key = "Down"
        THEN IF popup.selected_index < Max(Len(filtered_formats) - 1, 0)
             THEN Handled([s EXCEPT !.format_popup =
                              Some([popup EXCEPT !.selected_index = popup.selected_index + 1])],
                          <<>>, nid)
             ELSE Handled(s, <<>>, nid)
        ELSE IF key = "Enter"
        THEN IF popup.selected_index < Len(filtered_formats)
             THEN LET selected_format == filtered_formats[popup.selected_index + 1]
                      q2 == IF HasItem(s.queue, popup.item_id)
                            THEN [s.queue EXCEPT ![FindItem(s.queue, popup.item_id)] =
                                     [@ EXCEPT !.format = Some(selected_format),
                                               !.status = "Ready"]]
                            ELSE s.queue
                  IN  Handled([s EXCEPT !.format_popup = None, !.queue = q2],
                              <<StartDownload(popup.item_id)>>, nid)
             ELSE Handled(s, <<>>, nid)
        ELSE IF key = "t"
        THEN Handled([s EXCEPT !.format_popup =
                         Some([popup EXCEPT !.audio_only_filter = ~popup.audio_only_filter,
                                            !.selected_index = 0])],
                     <<>>, nid)
        ELSE IF key = "Esc"
        THEN Handled([s EXCEPT !.format_popup = None], <<>>, nid)
        ELSE Handled(s, <<>>, nid)

\* the items Enter appends: one per entry, in order, each with a fresh Uuid
\* PreviewItems, had the loop pushed the entries last to first
PreviewItems_Reversed(entries, nid) ==
    [i \in 1..Len(entries) |->
        [DownloadItem_new(nid + i - 1, entries[Len(entries) + 1 - i].url) EXCEPT
            !.title = Some(entries[Len(entries) + 1 - i].title),
            !.duration = entries[Len(entries) + 1 - i].duration,
            !.status = "Pending"]]

PreviewItems(entries, nid) ==
    [i \in 1..Len(entries) |->
        [DownloadItem_new(nid + i - 1, entries[i].url) EXCEPT
            !.title = Some(entries[i].title),
            !.duration = entries[i].duration,
            !.status = "Pending"]]

handle_playlist_preview_input(key, s, nid) ==
    LET preview == Unwrap(s.playlist_preview)
    IN  IF key = "Up"
        THEN IF preview.selected_index > 0
             THEN Handled([s EXCEPT !.playlist_preview =
                              Some([preview EXCEPT !.selected_index = preview.selected_index - 1])],
                          <<>>, nid)
             ELSE Handled(s, <<>>, nid)
        ELSE IF key = "Down"
        THEN IF preview.selected_index + 1 < Len(preview.entries)
             THEN Handled([s EXCEPT !.playlist_preview =
                              Some([preview EXCEPT !.selected_index = preview.selected_index + 1])],
                          <<>>, nid)
             ELSE Handled(s, <<>>, nid)
        ELSE IF key = "Enter"
        THEN Handled([s EXCEPT !.playlist_preview = None,
                               !.queue = s.queue \o PreviewItems(preview.entries, nid)],
                     <<>>, nid + Len(preview.entries))
        ELSE IF key = "Esc"
        THEN Handled([s EXCEPT !.playlist_preview = None], <<>>, nid)
        ELSE Handled(s, <<>>, nid)

handle_key_event(key, s, nid) ==
    IF key = "CtrlC"
    THEN Handled([s EXCEPT !.should_quit = TRUE], <<>>, nid)
    ELSE IF IsSome(s.error_message)
    THEN Handled([s EXCEPT !.error_message = None], <<>>, nid)
    ELSE IF IsSome(s.format_popup)
    THEN handle_format_popup_input(key, s, nid)
    ELSE IF IsSome(s.playlist_preview)
    THEN handle_playlist_preview_input(key, s, nid)
    ELSE IF s.input_mode
    THEN handle_input_mode(key, s, nid)
    ELSE handle_navigation_mode(key, s, nid)

-----------------------------------------------------------------------------
(* handle_download_action: src/main.rs.  An arm maps the state and the     *)
(* background tasks to what they are once the arm has run.                 *)

Effect(s, tks, ups, fps) == [state |-> s, tasks |-> tks, url_probes |-> ups, fetch_probes |-> fps]

\* tokio::spawn of the download task: its start_download is running, it has
\* reported `sent` progress lines, `buf` holds the ones its forwarder has not
\* passed on yet
NewTask(id) == [id |-> id, st |-> "running", sent |-> 0, buf |-> <<>>]

\* JoinHandle::abort: a task that has finished is left as it is.  An abort
\* that races the task's last step is the run in which that step came first.
Abort(tks, h) == IF tks[h].st = "running" THEN [tks EXCEPT ![h].st = "aborted"] ELSE tks

Action_AddUrl(url, s, tks, ups, fps) ==
    Effect(s, tks, Append(ups, [url |-> url, st |-> "running", events |-> 0]), fps)

\* Action_StartDownload, had it moved the format out of the item
\* (item.format.take()) to hand it to the task
Action_StartDownload_TakesFormat(id, s, tks, ups, fps) ==
    IF HasItem(s.queue, id) /\ IsSome(s.queue[FindItem(s.queue, id)].format)
    THEN Effect([s EXCEPT !.queue[FindItem(s.queue, id)] =
                              [@ EXCEPT !.status = "Downloading", !.format = None],
                          !.running_tasks = MapInsert(s.running_tasks, id, Len(tks) + 1)],
                Append(tks, NewTask(id)), ups, fps)
    ELSE Effect(s, tks, ups, fps)

\* Action_StartDownload, had it spawned the task without keeping its handle
Action_StartDownload_NoHandle(id, s, tks, ups, fps) ==
    IF HasItem(s.queue, id) /\ IsSome(s.queue[FindItem(s.queue, id)].format)
    THEN Effect([s EXCEPT !.queue[FindItem(s.queue, id)].status = "Downloading"],
                Append(tks, NewTask(id)), ups, fps)
    ELSE Effect(s, tks, ups, fps)

\* running_tasks.insert drops the JoinHandle it replaces, and a dropped
\* JoinHandle detaches its task: the task keeps running
Action_StartDownload(id, s, tks, ups, fps) ==
    IF HasItem(s.queue, id) /\ IsSome(s.queue[FindItem(s.queue, id)].format)
    THEN Effect([s EXCEPT !.queue[FindItem(s.queue, id)].status = "Downloading",
                          !.running_tasks = MapInsert(s.running_tasks, id, Len(tks) + 1)],
                Append(tks, NewTask(id)), ups, fps)
    ELSE Effect(s, tks, ups, fps)

Action_CancelDownload(id, s, tks, ups, fps) ==
    LET tks2 == IF id \in DOMAIN s.running_tasks THEN Abort(tks, s.running_tasks[id]) ELSE tks
        s2 == [s EXCEPT !.running_tasks = MapRemove(s.running_tasks, id)]
    IN  IF HasItem(s.queue, id)
        THEN Effect([s2 EXCEPT !.queue[FindItem(s.queue, id)].status = "Cancelled"],
                    tks2, ups, fps)
        ELSE Effect(s2, tks2, ups, fps)

\* Action_RemoveItem, had the arm dropped the handle without abort()
Action_RemoveItem_NoAbort(id, s, tks, ups, fps) ==
    Effect([s EXCEPT !.running_tasks = MapRemove(s.running_tasks, id)], tks, ups, fps)

\* Action_RemoveItem, had it aborted the task and left its handle registered
Action_RemoveItem_KeepsHandle(id, s, tks, ups, fps) ==
    IF id \in DOMAIN s.running_tasks
    THEN Effect(s, Abort(tks, s.running_tasks[id]), ups, fps)
    ELSE Effect(s, tks, ups, fps)

Action_RemoveItem(id, s, tks, ups, fps) ==
    IF id \in DOMAIN s.running_tasks
    THEN Effect([s EXCEPT !.running_tasks = MapRemove(s.running_tasks, id)],
                Abort(tks, s.running_tasks[id]), ups, fps)
    ELSE Effect(s, tks, ups, fps)

Action_FetchFormats(id, s, tks, ups, fps) ==
    IF HasItem(s.queue, id)
    THEN Effect([s EXCEPT !.queue[FindItem(s.queue, id)].status = "FetchingInfo"],
                tks, ups, [fps EXCEPT ![id] = @ + 1])
    ELSE Effect(s, tks, ups, fps)

\* PauseDownload and ResumeDownload are placeholders
Action_PauseResume(id, s, tks, ups, fps) == Effect(s, tks, ups, fps)

handle_download_action(action, s, tks, ups, fps) ==
    CASE action.type = "AddUrl" -> Action_AddUrl(action.url, s, tks, ups, fps)
      [] action.type = "StartDownload" -> Action_StartDownload(action.id, s, tks, ups, fps)
      [] action.type = "CancelDownload" -> Action_CancelDownload(action.id, s, tks, ups, fps)
      [] action.type = "RemoveItem" -> Action_RemoveItem(action.id, s, tks, ups, fps)
      [] action.type = "FetchFormats" -> Action_FetchFormats(action.id, s, tks, ups, fps)
      [] action.type \in {"PauseDownload", "ResumeDownload"} ->
            Action_PauseResume(action.id, s, tks, ups, fps)

-----------------------------------------------------------------------------
(* handle_app_event: src/main.rs.  An arm maps the event, the state and    *)
(* the next fresh Uuid to the new state and the next fresh Uuid.           *)
(* AppEvent::Quit and AppEvent::UrlValidated are sent by nothing.          *)

Applied(s, nid) == [state |-> s, next_id |-> nid]

\* Event_ProgressUpdate, had the arm stored the snapshot and left the status
Event_ProgressUpdate_KeepStatus(ev, s, nid) ==
    IF HasItem(s.queue, ev.id)
    THEN Applied([s EXCEPT !.queue[FindItem(s.queue, ev.id)].progress = ev.progress], nid)
    ELSE Applied(s, nid)

Event_ProgressUpdate(ev, s, nid) ==
    IF HasItem(s.queue, ev.id)
    THEN Applied([s EXCEPT !.queue[FindItem(s.queue, ev.id)] =
                     [@ EXCEPT !.progress = ev.progress,
                               !.status = IF @ # "Downloading" THEN "Downloading" ELSE @]],
                 nid)
    ELSE Applied(s, nid)

Event_DownloadCompleted(ev, s, nid) ==
    LET s2 == [s EXCEPT !.running_tasks = MapRemove(s.running_tasks, ev.id)]
    IN  IF HasItem(s.queue, ev.id)
        THEN Applied([s2 EXCEPT !.queue[FindItem(s.queue, ev.id)].status = "Completed"], nid)
        ELSE Applied(s2, nid)

\* Event_DownloadFailed, had the arm left the handle in the registry
Event_DownloadFailed_KeepHandle(ev, s, nid) ==
    IF HasItem(s.queue, ev.id)
    THEN Applied([s EXCEPT !.queue[FindItem(s.queue, ev.id)] =
                     [@ EXCEPT !.status = "Failed", !.error = Some(ev.error)]],
                 nid)
    ELSE Applied(s, nid)

Event_DownloadFailed(ev, s, nid) ==
    LET s2 == [s EXCEPT !.running_tasks = MapRemove(s.running_tasks, ev.id)]
    IN  IF HasItem(s.queue, ev.id)
        THEN Applied([s2 EXCEPT !.queue[FindItem(s.queue, ev.id)] =
                         [@ EXCEPT !.status = "Failed", !.error = Some(ev.error)]],
                     nid)
        ELSE Applied(s2, nid)

\* Event_FormatsFetched, had it opened the popup outside the `if let Some(item)`
Event_FormatsFetched_AlwaysOpens(ev, s, nid) ==
    LET s2 == [s EXCEPT !.format_popup =
                  Some([item_id |-> ev.id, formats |-> ev.formats,
                        selected_index |-> 0, audio_only_filter |-> FALSE])]
    IN  IF HasItem(s.queue, ev.id)
        THEN Applied([s2 EXCEPT !.queue[FindItem(s.queue, ev.id)] =
                         [@ EXCEPT !.title = Some(ev.title),
                                   !.duration = ev.duration,
                                   !.status = "Ready"]],
                     nid)
        ELSE Applied(s2, nid)

Event_FormatsFetched(ev, s, nid) ==
    IF HasItem(s.queue, ev.id)
    THEN Applied([s EXCEPT !.queue[FindItem(s.queue, ev.id)] =
                     [@ EXCEPT !.title = Some(ev.title),
                               !.duration = ev.duration,
                               !.status = "Ready"],
                           !.format_popup =
                               Some([item_id |-> ev.id, formats |-> ev.formats,
                                     selected_index |-> 0, audio_only_filter |-> FALSE])],
                 nid)
    ELSE Applied(s, nid)

Event_FormatsFetchFailed(ev, s, nid) ==
    LET s2 == [s EXCEPT !.error_message = Some(ev.error)]
    IN  IF HasItem(s.queue, ev.id)
        THEN Applied([s2 EXCEPT !.queue[FindItem(s.queue, ev.id)] =
                         [@ EXCEPT !.status = "Failed", !.error = Some(ev.error)]],
                     nid)
        ELSE Applied(s2, nid)

\* total_seconds: the sum of the durations that parse
RECURSIVE TotalSeconds(_)
TotalSeconds(entries) ==
    IF Len(entries) = 0 THEN 0
    ELSE LET dur == Head(entries).duration
             secs == IF IsSome(dur) THEN parse_duration_to_seconds(Unwrap(dur)) ELSE None
         IN  (IF IsSome(secs) THEN Unwrap(secs) ELSE 0) + TotalSeconds(Tail(entries))

PlaylistEntry(e) == [url |-> e.url, title |-> e.title, duration |-> e.duration]

Event_PlaylistDetected(ev, s, nid) ==
    LET total_seconds == TotalSeconds(ev.entries)
        total_duration == IF total_seconds > 0
                          THEN Some(format_duration_from_seconds(total_seconds))
                          ELSE None
    IN  Applied([s EXCEPT !.is_loading = FALSE,
                          !.loading_message = None,
                          !.playlist_preview =
                              Some([entries |-> [i \in 1..Len(ev.entries) |->
                                                    PlaylistEntry(ev.entries[i])],
                                    selected_index |-> 0,
                                    total_duration |-> total_duration])],
                nid)

\* Event_SingleVideoDetected, had the arm ended at the push (FetchingInfo)
Event_SingleVideoDetected_FetchingInfo(ev, s, nid) ==
    LET item == [DownloadItem_new(nid, ev.url) EXCEPT
                    !.title = Some(ev.title),
                    !.duration = ev.duration,
                    !.status = "FetchingInfo"]
    IN  Applied([s EXCEPT !.is_loading = FALSE,
                          !.loading_message = None,
                          !.queue = Append(s.queue, item)],
                nid + 1)

Event_SingleVideoDetected(ev, s, nid) ==
    LET item == [DownloadItem_new(nid, ev.url) EXCEPT
                    !.title = Some(ev.title),
                    !.duration = ev.duration,
                    !.status = "Ready"]
    IN  Applied([s EXCEPT !.is_loading = FALSE,
                          !.loading_message = None,
                          !.queue = Append(s.queue, item)],
                nid + 1)

Event_PlaylistFetchFailed(ev, s, nid) ==
    Applied([s EXCEPT !.is_loading = FALSE,
                      !.loading_message = None,
                      !.error_message = Some(ev.error)],
            nid)

handle_app_event(ev, s, nid) ==
    CASE ev.type = "ProgressUpdate" -> Event_ProgressUpdate(ev, s, nid)
      [] ev.type = "DownloadCompleted" -> Event_DownloadCompleted(ev, s, nid)
      [] ev.type = "DownloadFailed" -> Event_DownloadFailed(ev, s, nid)
      [] ev.type = "FormatsFetched" -> Event_FormatsFetched(ev, s, nid)
      [] ev.type = "FormatsFetchFailed" -> Event_FormatsFetchFailed(ev, s, nid)
      [] ev.type = "PlaylistDetected" -> Event_PlaylistDetected(ev, s, nid)
      [] ev.type = "SingleVideoDetected" -> Event_SingleVideoDetected(ev, s, nid)
      [] ev.type = "PlaylistFetchFailed" -> Event_PlaylistFetchFailed(ev, s, nid)

-----------------------------------------------------------------------------
(* The background tasks.  They run until main returns: the runtime shuts  *)
(* its tasks down when the loop has ended (should_quit).                   *)

\* what the task spawned by AddUrl sends once fetch_playlist_entries returns
\* `outcome`: Err, or Ok(entries)
UrlProbeEvents(outcome) ==
    IF outcome.ok
    THEN IF Len(outcome.entries) > 1
         THEN <<PlaylistDetected(outcome.entries)>>
         ELSE IF Len(outcome.entries) > 0
         THEN <<SingleVideoDetected(outcome.entries[1])>>
         ELSE <<>>
    ELSE <<PlaylistFetchFailed("Failed to process URL")>>

UrlOutcomes == {[ok |-> FALSE, entries |-> <<>>]} \cup {[ok |-> TRUE, entries |-> l] : l \in Listings}

\* what the task spawned by FetchFormats sends once fetch_formats returns
FetchProbeEvent(id, ok) ==
    IF ok THEN FormatsFetched(id, FetchedInfo)
    ELSE FormatsFetchFailed(id, "Failed to fetch formats")

\* what the download task sends once start_download returns
TerminalEvent(id, ok, task) ==
    IF ok THEN DownloadCompleted(id, task)
    ELSE DownloadFailed(id, "Download failed", task)

-----------------------------------------------------------------------------
(* ParallelPlaylistProcessor: src/commands/parallel_processor.rs.  A task  *)
(* of the processor holds a permit of the semaphore from its acquire to    *)
(* the end of its body (the permit is a guard that is dropped with the     *)
(* task's future, however the task ends).                                  *)

\* the permits of the global PARALLEL_PROCESSOR
DefaultConcurrency == 8

\* the processors that are run on their own have 1..MaxPermits permits, are
\* given 0..MaxPermits + 1 entries and are asked for one prefetch of each
\* item of PrefetchIds
MaxPermits == 2

MaxEntries == MaxPermits + 1

PrefetchIds == {1}

\* ParallelPlaylistProcessor::new(n)
ProcessorInit(n) ==
    /\ max_concurrency = n
    /\ semaphore = n
    /\ workers = <<>>
    /\ batch = "idle"
    /\ lim_tx = <<>>

\* a spawned task: at its acquire, no probe made yet
Worker(kind, id) == [kind |-> kind, id |-> id, pc |-> "acquire", probed |-> FALSE]

\* CanAcquire, had acquire returned without a permit to take
CanAcquire_Always(permits) == TRUE

\* Semaphore::acquire().await returns once a permit is available
CanAcquire(permits) == permits > 0

\* try_acquire, had it taken a permit whether or not one is available
try_acquire_Barge(permits) == [ok |-> TRUE, permits |-> permits - 1]

\* Semaphore::try_acquire returns at once, with a permit or with NoPermits
try_acquire(permits) ==
    IF permits > 0
    THEN [ok |-> TRUE, permits |-> permits - 1]
    ELSE [ok |-> FALSE, permits |-> permits]

\* drop_permit, had the permit been forgotten instead of dropped
drop_permit_Leak(permits) == permits

\* the drop of a SemaphorePermit gives the permit back
drop_permit(permits) == permits + 1

RECURSIVE DropPermits(_, _)
DropPermits(permits, k) ==
    IF k = 0 THEN permits ELSE DropPermits(drop_permit(permits), k - 1)

\* what a task sends once fetch_formats has returned: prefetch_single is
\* silent on failure
WorkerEvents(kind, id, ok) ==
    IF ok THEN <<FormatsFetched(id, FetchedInfo)>>
    ELSE IF kind = "batch" THEN <<FormatsFetchFailed(id, "Failed to fetch formats")>>
    ELSE <<>>

Holders == {w \in 1..Len(workers) : workers[w].pc = "probing"}

BatchWorkers == {w \in 1..Len(workers) : workers[w].kind = "batch"}

PrefetchWorkers == {w \in 1..Len(workers) : workers[w].kind = "prefetch"}

\* process_playlist_formats is called with n entries (ids 1..n): it spawns
\* one task per entry into its JoinSet and waits for them
process_playlist_formats(n) ==
    /\ batch = "idle"
    /\ batch' = "running"
    /\ workers' = workers \o [i \in 1..n |-> Worker("batch", i)]
    /\ lim_tx' = lim_tx \o [i \in 1..n |-> <<>>]
    /\ UNCHANGED <<max_concurrency, semaphore, loop_vars, cache_vars, fetch_vars>>

\* prefetch_single(id, ..) spawns a detached task
prefetch_single(id) ==
    /\ \A w \in PrefetchWorkers : workers[w].id # id
    /\ workers' = Append(workers, Worker("prefetch", id))
    /\ lim_tx' = Append(lim_tx, <<>>)
    /\ UNCHANGED <<max_concurrency, semaphore, batch, loop_vars, cache_vars, fetch_vars>>

\* a task of process_playlist_formats gets its permit and starts its probe
Acquire(w) ==
    /\ workers[w].kind = "batch"
    /\ workers[w].pc = "acquire"
    /\ CanAcquire(semaphore)
    /\ semaphore' = semaphore - 1
    /\ workers' = [workers EXCEPT ![w].pc = "probing", ![w].probed = TRUE]
    /\ UNCHANGED <<max_concurrency, batch, lim_tx, loop_vars, cache_vars, fetch_vars>>

\* the task of prefetch_single tries for a permit: with one it starts its
\* probe, without one it ends
TryAcquire(w) ==
    /\ workers[w].kind = "prefetch"
    /\ workers[w].pc = "acquire"
    /\ LET r == try_acquire(semaphore)
       IN  /\ semaphore' = r.permits
           /\ workers' = IF r.ok
                         THEN [workers EXCEPT ![w].pc = "probing", ![w].probed = TRUE]
                         ELSE [workers EXCEPT ![w].pc = "done"]
    /\ UNCHANGED <<max_concurrency, batch, lim_tx, loop_vars, cache_vars, fetch_vars>>

\* fetch_formats returns: the task sends its event (the receiver keeps the
\* channel from filling up) and ends, which drops its permit
ProbeDone(w, ok) ==
    /\ workers[w].pc = "probing"
    /\ lim_tx' = [lim_tx EXCEPT ![w] = @ \o WorkerEvents(workers[w].kind, workers[w].id, ok)]
    /\ semaphore' = drop_permit(semaphore)
    /\ workers' = [workers EXCEPT ![w].pc = "done"]
    /\ UNCHANGED <<max_concurrency, batch, loop_vars, cache_vars, fetch_vars>>

\* the caller drops the future of process_playlist_formats: the JoinSet is
\* dropped, which aborts its unfinished tasks and so drops their permits
CancelBatch ==
    /\ batch = "running"
    /\ batch' = "dropped"
    /\ workers' = [w \in 1..Len(workers) |->
                     IF workers[w].kind = "batch" /\ workers[w].pc # "done"
                     THEN [workers[w] EXCEPT !.pc = "aborted"]
                     ELSE workers[w]]
    /\ semaphore' = DropPermits(semaphore, Cardinality(Holders \cap BatchWorkers))
    /\ UNCHANGED <<max_concurrency, lim_tx, loop_vars, cache_vars, fetch_vars>>

\* join_next has returned every task: process_playlist_formats returns Ok(())
Return ==
    /\ batch = "running"
    /\ \A w \in BatchWorkers : workers[w].pc = "done"
    /\ batch' = "returned"
    /\ UNCHANGED <<max_concurrency, semaphore, workers, lim_tx, loop_vars, cache_vars, fetch_vars>>

-----------------------------------------------------------------------------
(* CacheStore: src/cache.rs.  Time is in seconds.  Where the cache is run  *)
(* on its own the clock does not run backwards, so no timestamp is later   *)
(* than the clock; ClockBack lifts that.                                   *)

\* CacheStore.ttl
ttl == 24 * 3600

CacheUrls == {"u1", "u2"}

\* the instants at which the cache is used
Times == {0, 1, ttl - 1, ttl, ttl + 1}

\* a CachedEntry captured at `timestamp`
CachedEntry(url, title, formats, timestamp) ==
    [url |-> url, title |-> title, duration |-> None, formats |-> formats,
     playlist_entries |-> None, timestamp |-> timestamp]

\* CachedEntry::new at `timestamp`
CachedEntry_new(url, title, timestamp) == CachedEntry(url, title, None, timestamp)

\* the cache file: absent, holding the JSON of a map, holding text that is not
\* the JSON of a map (corrupt), or not readable as text at all (no permission,
\* not a file, not UTF-8)
CacheFile(kind, entries) == [kind |-> kind, entries |-> entries]

AbsentFile == CacheFile("absent", <<>>)

\* the jobs of CacheStore::set that may wait to run at one time
MaxJobs == 2

\* a process that has not used the cache, and no cache file
CacheInit ==
    /\ cache_entries = <<>>
    /\ now = 0
    /\ got = None
    /\ cache_file = AbsentFile
    /\ cache_jobs = 0
    /\ cache_writers = 0
    /\ cache_status = "unset"

\* CacheStore::new: the map it loads, or the error of read_to_string
CacheStore_new(file) ==
    IF file.kind = "unreadable"
    THEN [ok |-> FALSE, entries |-> <<>>]
    ELSE [ok |-> TRUE, entries |-> IF file.kind = "json" THEN file.entries ELSE <<>>]

\* the modulus of the unsigned arithmetic of `now - entry.timestamp`: u64 in
\* the code, brought down to the integers of the model checker.  It is above
\* every clock reading and above the ttl, which is all the comparison of get
\* depends on.
Wrap == 2^30

\* `a - b` of two u64 where overflow is not checked
WrappingSub(a, b) == (a - b + Wrap) % Wrap

\* CacheStore::get, had the entry been kept through the instant the ttl ends
CacheStore_get_Inclusive(map, time, url) ==
    IF url \in DOMAIN map /\ WrappingSub(time, map[url].timestamp) <= ttl
    THEN Some(map[url])
    ELSE None

CacheStore_get(map, time, url) ==
    IF url \in DOMAIN map /\ WrappingSub(time, map[url].timestamp) < ttl
    THEN Some(map[url])
    ELSE None

\* the first get_cache() of a process: CACHE is initialised with
\* CacheStore::new().expect(..).  When a store is running, this is the next run
\* of the program: the process before it has ended, and the jobs it had not run
\* are gone.
get_cache ==
    /\ cache_status \in {"unset", "running"}
    /\ LET r == CacheStore_new(cache_file)
       IN  /\ cache_status' = IF r.ok THEN "running" ELSE "panicked"
           /\ cache_entries' = r.entries
    /\ cache_jobs' = 0
    /\ cache_writers' = 0
    /\ got' = None
    /\ UNCHANGED <<now, cache_file, loop_vars, limiter_vars, fetch_vars>>

CacheGet(url) ==
    /\ cache_status = "running"
    /\ got' = CacheStore_get(cache_entries, now, url)
    /\ UNCHANGED <<cache_entries, now, cache_file, cache_jobs, cache_writers, cache_status>>
    /\ UNCHANGED <<loop_vars, limiter_vars, fetch_vars>>

\* CacheStore::set(url, entry), the entry captured now or earlier: the insert
\* under the write lock, which waits for the jobs that hold the read lock, and
\* the spawn_blocking of the job that saves the map
CacheSet(url, entry) ==
    /\ cache_status = "running"
    /\ cache_writers = 0
    /\ cache_jobs < MaxJobs
    /\ cache_entries' = MapInsert(cache_entries, url, entry)
    /\ cache_jobs' = cache_jobs + 1
    /\ UNCHANGED <<now, got, cache_file, cache_writers, cache_status>>
    /\ UNCHANGED <<loop_vars, limiter_vars, fetch_vars>>

\* a job of CacheStore::set takes the read lock, which it shares with the
\* other jobs, and fs::write opens the file: the file is truncated
CacheWriteStart ==
    /\ cache_status = "running"
    /\ cache_jobs > 0
    /\ cache_jobs' = cache_jobs - 1
    /\ cache_writers' = cache_writers + 1
    /\ cache_file' = CacheFile("corrupt", <<>>)
    /\ UNCHANGED <<cache_entries, now, got, cache_status>>
    /\ UNCHANGED <<loop_vars, limiter_vars, fetch_vars>>

\* fs::write of a job returns and the job drops the read lock.  The file holds
\* the JSON of the map, unless another job is in the middle of writing it
\* (`whole` is false).
CacheWriteEnd(whole) ==
    /\ cache_status = "running"
    /\ cache_writers > 0
    /\ ~whole => cache_writers > 1
    /\ cache_writers' = cache_writers - 1
    /\ cache_file' = IF whole THEN CacheFile("json", cache_entries)
                             ELSE CacheFile("corrupt", <<>>)
    /\ UNCHANGED <<cache_entries, now, got, cache_jobs, cache_status>>
    /\ UNCHANGED <<loop_vars, limiter_vars, fetch_vars>>

\* CacheStore::invalidate: the map only, under the write lock
CacheInvalidate(url) ==
    /\ cache_status = "running"
    /\ cache_writers = 0
    /\ cache_entries' = MapRemove(cache_entries, url)
    /\ UNCHANGED <<now, got, cache_file, cache_jobs, cache_writers, cache_status>>
    /\ UNCHANGED <<loop_vars, limiter_vars, fetch_vars>>

\* CacheStore::clear: the map and the file, under the write lock
CacheClear ==
    /\ cache_status = "running"
    /\ cache_writers = 0
    /\ cache_entries' = <<>>
    /\ cache_file' = AbsentFile
    /\ UNCHANGED <<now, got, cache_jobs, cache_writers, cache_status>>
    /\ UNCHANGED <<loop_vars, limiter_vars, fetch_vars>>

\* CacheStore::get in a build that checks overflow, on an entry captured later
\* than the clock reads: `now - entry.timestamp` panics
CacheGetPanic(url) ==
    /\ cache_status = "running"
    /\ url \in DOMAIN cache_entries
    /\ cache_entries[url].timestamp > now
    /\ cache_status' = "panicked"
    /\ UNCHANGED <<cache_entries, now, got, cache_file, cache_jobs, cache_writers>>
    /\ UNCHANGED <<loop_vars, limiter_vars, fetch_vars>>

\* the system clock is set back
ClockBack(time) ==
    /\ time < now
    /\ now' = time
    /\ UNCHANGED <<cache_entries, got, cache_file, cache_jobs, cache_writers, cache_status>>
    /\ UNCHANGED <<loop_vars, limiter_vars, fetch_vars>>

\* time passes
Tick(time) ==
    /\ time > now
    /\ now' = time
    /\ UNCHANGED <<cache_entries, got, cache_file, cache_jobs, cache_writers, cache_status>>
    /\ UNCHANGED <<loop_vars, limiter_vars, fetch_vars>>

-----------------------------------------------------------------------------
(* fetch_url_info_concurrent: src/commands/fast_fetch.rs *)

YoutubeUrl == "https://www.youtube.com/playlist?list=p1"

OtherUrl == "https://vimeo.com/showcase/1"

\* url.contains("youtube.com") || url.contains("youtu.be")
IsYoutube(url) == url = YoutubeUrl

\* the lines of output of the listing a run may hold
MaxLines == 3

\* a line of the listing, split at '|'
PlaylistLines ==
    {<<"v1", "t1", "1:02">>, <<"v2", "t2", "NA">>, <<"v3">>}

\* the output of the single-item query, split at '|'
VideoOutputs ==
    {<<"tf", "1:02", "thumb">>, <<"tf", "NA", "">>, <<"">>}

\* parts.get(i).filter(|s| !s.is_empty() && **s != "NA")
PartOrNone(parts, i) ==
    IF i <= Len(parts) /\ parts[i] # "" /\ parts[i] # "NA" THEN Some(parts[i]) ELSE None

\* fetch_video_info_fast on a successful run of the tool: (title, duration,
\* thumbnail); `NA` is not filtered out of the thumbnail
fetch_video_info_fast(parts) ==
    [title |-> parts[1],
     duration |-> PartOrNone(parts, 2),
     thumbnail |-> IF 3 <= Len(parts) /\ parts[3] # "" THEN Some(parts[3]) ELSE None]

\* format!("https://www.youtube.com/watch?v={}", video_id)
WatchUrl(video_id) == <<"https://www.youtube.com/watch?v=", video_id>>

\* fetch_playlist_entries_fast on a successful run of the tool: the lines with
\* two parts or more, and only for a youtube url
fetch_playlist_entries_fast(url, lines) ==
    LET kept == SelectSeq(lines, LAMBDA parts : Len(parts) >= 2 /\ IsYoutube(url))
    IN  [i \in 1..Len(kept) |->
            [url |-> WatchUrl(kept[i][1]), title |-> kept[i][2],
             duration |-> PartOrNone(kept[i], 3)]]

\* a spawned task wrapping `fut` in timeout(3 s, fut): running, or finished
\* with Ok(Ok(out)), Ok(Err(_)) (the tool failed) or Err(Elapsed)
Running == [st |-> "running", out |-> <<>>]

Finished(st, out) == [st |-> st, out |-> out]

FetchInit(url) ==
    /\ fetch_url = url
    /\ video_fetch = Running
    /\ playlist_fetch = Running
    /\ url_info = None

\* the match on try_join!(video_fetch, playlist_fetch), had its arms been in
\* the other order
fetch_url_info_concurrent_VideoFirst(video, playlist) ==
    IF video.st = "ok"
    THEN [type |-> "SingleVideo", info |-> video.out]
    ELSE IF playlist.st = "ok" /\ Len(playlist.out) > 1
    THEN [type |-> "Playlist", entries |-> playlist.out]
    ELSE [type |-> "Err"]

\* the match on try_join!(video_fetch, playlist_fetch)
fetch_url_info_concurrent(video, playlist) ==
    IF playlist.st = "ok" /\ Len(playlist.out) > 1
    THEN [type |-> "Playlist", entries |-> playlist.out]
    ELSE IF video.st = "ok"
    THEN [type |-> "SingleVideo", info |-> video.out]
    ELSE [type |-> "Err"]

\* fetch_video_info_fast returns before its timeout
VideoDone(ok, parts) ==
    /\ video_fetch.st = "running"
    /\ video_fetch' = IF ok THEN Finished("ok", fetch_video_info_fast(parts))
                            ELSE Finished("err", <<>>)
    /\ UNCHANGED <<fetch_url, playlist_fetch, url_info>>
    /\ UNCHANGED <<loop_vars, limiter_vars, cache_vars>>

\* the 3 s of the single-item task are over
VideoElapsed ==
    /\ video_fetch.st = "running"
    /\ video_fetch' = Finished("elapsed", <<>>)
    /\ UNCHANGED <<fetch_url, playlist_fetch, url_info>>
    /\ UNCHANGED <<loop_vars, limiter_vars, cache_vars>>

\* fetch_playlist_entries_fast returns before its timeout
PlaylistDone(ok, lines) ==
    /\ playlist_fetch.st = "running"
    /\ playlist_fetch' = IF ok THEN Finished("ok", fetch_playlist_entries_fast(fetch_url, lines))
                               ELSE Finished("err", <<>>)
    /\ UNCHANGED <<fetch_url, video_fetch, url_info>>
    /\ UNCHANGED <<loop_vars, limiter_vars, cache_vars>>

\* the 3 s of the collection task are over
PlaylistElapsed ==
    /\ playlist_fetch.st = "running"
    /\ playlist_fetch' = Finished("elapsed", <<>>)
    /\ UNCHANGED <<fetch_url, video_fetch, url_info>>
    /\ UNCHANGED <<loop_vars, limiter_vars, cache_vars>>

\* try_join! has both results: fetch_url_info_concurrent returns
FetchReturn ==
    /\ video_fetch.st # "running"
    /\ playlist_fetch.st # "running"
    /\ url_info = None
    /\ url_info' = Some(fetch_url_info_concurrent(video_fetch, playlist_fetch))
    /\ UNCHANGED <<fetch_url, video_fetch, playlist_fetch>>
    /\ UNCHANGED <<loop_vars, limiter_vars, cache_vars>>

-----------------------------------------------------------------------------
(* The state machine *)

\* the control loop before its first iteration
LoopInit ==
    /\ state = AppState_default
    /\ action_rx = <<>>
    /\ app_rx = <<>>
    /\ next_id = 1
    /\ url_probes = <<>>
    /\ fetch_probes = [id \in Ids |-> 0]
    /\ work = 0
    /\ tasks = <<>>

Init ==
    /\ LoopInit
    /\ ProcessorInit(DefaultConcurrency)
    /\ CacheInit
    /\ FetchInit(YoutubeUrl)

\* the units of work the actions `sent` ask for
Cost(sent) ==
    Cardinality({i \in 1..Len(sent) :
        sent[i].type \in {"AddUrl", "FetchFormats", "PauseDownload", "ResumeDownload"}})

\* `sent` repeats no CancelDownload that waits in the channel
NoRepeat(sent) ==
    \A i \in 1..Len(sent) :
        sent[i].type = "CancelDownload" => \A j \in 1..Len(action_rx) : action_rx[j] # sent[i]

\* The keys the handler in charge reads; every other key leaves the state as
\* it is.  Any key dismisses the error notice: Esc stands for all of them.
KeysRead(s) ==
    {"CtrlC"} \cup
    (IF IsSome(s.error_message) THEN {"Esc"}
     ELSE IF IsSome(s.format_popup) THEN {"Up", "Down", "Enter", "t", "Esc"}
     ELSE IF IsSome(s.playlist_preview) THEN {"Up", "Down", "Enter", "Esc"}
     ELSE IF s.input_mode THEN {"EnterUrl", "EnterBlank", "Esc"}
     ELSE {"q", "i", "Up", "Down", "f", "d", "p", "c"})

\* input_rx.recv() => handle_input: the user presses `key`.  The user does
\* not press a key that asks for more work than the budget has left, and opens
\* the URL input only while an AddUrl is still within the budget.
KeyEvent(key) ==
    LET r == handle_key_event(key, state, next_id)
    IN  /\ ~state.should_quit
        /\ key \in KeysRead(state)
        /\ work + Cost(r.sent) <= MaxWork
        /\ NoRepeat(r.sent)
        /\ r.state.input_mode /\ ~state.input_mode => work < MaxWork
        /\ state' = r.state
        /\ action_rx' = action_rx \o r.sent
        /\ next_id' = r.next_id
        /\ work' = work + Cost(r.sent)
        /\ UNCHANGED <<app_rx, url_probes, fetch_probes, tasks>>
        /\ UNCHANGED <<limiter_vars, cache_vars, fetch_vars>>

\* action_rx.recv() => handle_download_action
HandleAction ==
    /\ ~state.should_quit
    /\ Len(action_rx) > 0
    /\ LET r == handle_download_action(Head(action_rx), state, tasks, url_probes, fetch_probes)
       IN  /\ state' = r.state
           /\ tasks' = r.tasks
           /\ url_probes' = r.url_probes
           /\ fetch_probes' = r.fetch_probes
    /\ action_rx' = Tail(action_rx)
    /\ UNCHANGED <<app_rx, next_id, work>>
    /\ UNCHANGED <<limiter_vars, cache_vars, fetch_vars>>

\* app_rx.recv() => handle_app_event
HandleAppEvent ==
    /\ ~state.should_quit
    /\ Len(app_rx) > 0
    /\ LET r == handle_app_event(Head(app_rx), state, next_id)
       IN  /\ state' = r.state
           /\ next_id' = r.next_id
    /\ app_rx' = Tail(app_rx)
    /\ UNCHANGED <<action_rx, url_probes, fetch_probes, work, tasks>>
    /\ UNCHANGED <<limiter_vars, cache_vars, fetch_vars>>

\* the task spawned by AddUrl: fetch_playlist_entries returns `outcome`,
\* which lists no more entries than the budget has units left
UrlProbeDone(p, outcome) ==
    /\ ~state.should_quit
    /\ url_probes[p].st = "running"
    /\ work + Len(outcome.entries) <= MaxWork
    /\ work' = work + Len(outcome.entries)
    /\ url_probes' = [url_probes EXCEPT ![p].st = "done",
                                        ![p].events = Len(UrlProbeEvents(outcome))]
    /\ app_rx' = app_rx \o UrlProbeEvents(outcome)
    /\ UNCHANGED <<state, action_rx, next_id, fetch_probes, tasks>>
    /\ UNCHANGED <<limiter_vars, cache_vars, fetch_vars>>

\* a task spawned by FetchFormats for item `id`: fetch_formats returns
FetchProbeDone(id, ok) ==
    /\ ~state.should_quit
    /\ fetch_probes[id] > 0
    /\ fetch_probes' = [fetch_probes EXCEPT ![id] = @ - 1]
    /\ app_rx' = Append(app_rx, FetchProbeEvent(id, ok))
    /\ UNCHANGED <<state, action_rx, next_id, url_probes, work, tasks>>
    /\ UNCHANGED <<limiter_vars, cache_vars, fetch_vars>>

\* start_download reads a progress line and sends it to its progress channel
DownloadProgress(t) ==
    /\ ~state.should_quit
    /\ tasks[t].st = "running"
    /\ work < MaxWork
    /\ work' = work + 1
    /\ tasks' = [tasks EXCEPT ![t].sent = @ + 1, ![t].buf = Append(@, tasks[t].sent + 1)]
    /\ UNCHANGED <<state, action_rx, app_rx, next_id, url_probes, fetch_probes>>
    /\ UNCHANGED <<limiter_vars, cache_vars, fetch_vars>>

\* ForwardProgress, had the forwarder written the snapshot into the item
ForwardProgress_Direct(t) ==
    /\ ~state.should_quit
    /\ Len(tasks[t].buf) > 0
    /\ tasks' = [tasks EXCEPT ![t].buf = Tail(@)]
    /\ state' = Event_ProgressUpdate(ProgressUpdate(tasks[t].id, Head(tasks[t].buf), t),
                                     state, next_id).state
    /\ UNCHANGED <<app_rx, action_rx, next_id, url_probes, fetch_probes, work>>
    /\ UNCHANGED <<limiter_vars, cache_vars, fetch_vars>>

\* the progress forwarding task passes one snapshot on as a ProgressUpdate.
\* It is a task of its own: aborting the download task does not stop it.
ForwardProgress(t) ==
    /\ ~state.should_quit
    /\ Len(tasks[t].buf) > 0
    /\ tasks' = [tasks EXCEPT ![t].buf = Tail(@)]
    /\ app_rx' = Append(app_rx, ProgressUpdate(tasks[t].id, Head(tasks[t].buf), t))
    /\ UNCHANGED <<state, action_rx, next_id, url_probes, fetch_probes, work>>
    /\ UNCHANGED <<limiter_vars, cache_vars, fetch_vars>>

\* start_download returns: the download task sends its terminal event and
\* aborts its forwarder, which still passes on `keep` of the snapshots it holds
\* (the abort takes effect at the forwarder's next await)
DownloadDone(t, ok, keep) ==
    /\ ~state.should_quit
    /\ tasks[t].st = "running"
    /\ keep \in 0..Len(tasks[t].buf)
    /\ tasks' = [tasks EXCEPT ![t].st = "done", ![t].buf = SubSeq(@, 1, keep)]
    /\ app_rx' = Append(app_rx, TerminalEvent(tasks[t].id, ok, t))
    /\ UNCHANGED <<state, action_rx, next_id, url_probes, fetch_probes, work>>
    /\ UNCHANGED <<limiter_vars, cache_vars, fetch_vars>>

Next ==
    \/ \E key \in KeyCodes : KeyEvent(key)
    \/ HandleAction
    \/ HandleAppEvent
    \/ \E p \in 1..Len(url_probes) : \E outcome \in UrlOutcomes : UrlProbeDone(p, outcome)
    \/ \E id \in Ids : \E ok \in BOOLEAN : FetchProbeDone(id, ok)
    \/ \E t \in 1..Len(tasks) : DownloadProgress(t)
    \/ \E t \in 1..Len(tasks) : ForwardProgress(t)
    \/ \E t \in 1..Len(tasks) : \E ok \in BOOLEAN : \E keep \in 0..MaxWork :
          DownloadDone(t, ok, keep)

Spec == Init /\ [][Next]_vars

-----------------------------------------------------------------------------
(* The PlaylistDetected arm on the listings of a playlist *)

\* the duration fields the external tool prints: 1:02, 0:58, none, 59,
\* 1:01:01 and N/A
DurationTexts ==
    {Some(<<"1", ":", "0", "2">>), Some(<<"0", ":", "5", "8">>), None,
     Some(<<"5", "9">>), Some(<<"1", ":", "0", "1", ":", "0", "1">>),
     Some(<<"N", "/", "A">>), Some(<<"0", ":", "0", "0">>)}

\* the listings of two or three entries
DurationListings ==
    {<<[url |-> "u1", title |-> "t1", duration |-> d1],
       [url |-> "u2", title |-> "t2", duration |-> d2]>> : d1, d2 \in DurationTexts}
    \cup
    {<<[url |-> "u1", title |-> "t1", duration |-> d1],
       [url |-> "u2", title |-> "t2", duration |-> d2],
       [url |-> "u3", title |-> "t3", duration |-> d3]>> : d1, d2, d3 \in DurationTexts}

\* the loop when the probe of the submitted URL has sent its PlaylistDetected
DurationInit ==
    /\ \E l \in DurationListings : app_rx = <<PlaylistDetected(l)>>
    /\ state = [AppState_default EXCEPT
                   !.is_loading = TRUE,
                   !.loading_message = Some("Fetching video information...")]
    /\ action_rx = <<>>
    /\ next_id = 1
    /\ url_probes = <<[url |-> "url", st |-> "done", events |-> 1]>>
    /\ fetch_probes = [id \in Ids |-> 0]
    /\ work = MaxWork
    /\ tasks = <<>>
    /\ ProcessorInit(DefaultConcurrency)
    /\ CacheInit
    /\ FetchInit(YoutubeUrl)

DurationSpec == DurationInit /\ [][HandleAppEvent]_vars

-----------------------------------------------------------------------------
(* The loop next to a cache whose file holds an entry *)

\* CacheStore::new has loaded a cache file with an entry for u1, with its
\* formats, captured at the instant the loop starts
CachedInit ==
    /\ LoopInit
    /\ ProcessorInit(DefaultConcurrency)
    /\ FetchInit(YoutubeUrl)
    /\ cache_entries = [url \in {Entry1.url} |->
                           CachedEntry(url, FetchedInfo.title, Some(FetchedInfo.formats), 0)]
    /\ now = 0
    /\ got = None
    /\ cache_file = CacheFile("json", cache_entries)
    /\ cache_jobs = 0
    /\ cache_writers = 0
    /\ cache_status = "running"

CachedSpec == CachedInit /\ [][Next]_vars

-----------------------------------------------------------------------------
(* The processor on its own *)

LimiterInit ==
    /\ LoopInit
    /\ CacheInit
    /\ FetchInit(YoutubeUrl)
    /\ \E n \in 1..MaxPermits : ProcessorInit(n)

\* the steps of the processor's tasks and of process_playlist_formats
LimiterRun ==
    \/ \E w \in 1..Len(workers) : Acquire(w)
    \/ \E w \in 1..Len(workers) : TryAcquire(w)
    \/ \E w \in 1..Len(workers) : \E ok \in BOOLEAN : ProbeDone(w, ok)
    \/ Return

LimiterNext ==
    \/ \E n \in 0..MaxEntries : process_playlist_formats(n)
    \/ \E id \in PrefetchIds : prefetch_single(id)
    \/ LimiterRun
    \/ CancelBatch

LimiterSpec == LimiterInit /\ [][LimiterNext]_vars

\* the runtime keeps running every task that can run
LimiterFairSpec == LimiterSpec /\ WF_vars(LimiterRun)

-----------------------------------------------------------------------------
(* The cache on its own *)

\* the cache files a process may find when it starts
InitialFiles ==
    {AbsentFile, CacheFile("corrupt", <<>>), CacheFile("unreadable", <<>>),
     CacheFile("json", [url \in {"u1"} |-> CachedEntry_new(url, "t1", 0)])}

CacheSpecInit ==
    /\ LoopInit
    /\ ProcessorInit(DefaultConcurrency)
    /\ FetchInit(YoutubeUrl)
    /\ cache_entries = <<>>
    /\ now = 0
    /\ got = None
    /\ cache_file \in InitialFiles
    /\ cache_jobs = 0
    /\ cache_writers = 0
    /\ cache_status = "unset"

CacheNext ==
    \/ get_cache
    \/ CacheWriteStart
    \/ \E whole \in BOOLEAN : CacheWriteEnd(whole)
    \/ \E url \in CacheUrls : CacheGet(url)
    \/ \E url \in CacheUrls : \E time \in {x \in Times : x <= now} :
          CacheSet(url, CachedEntry_new(url, "t1", time))
    \/ \E url \in CacheUrls : CacheInvalidate(url)
    \/ CacheClear
    \/ \E time \in Times : Tick(time)

CacheSpec == CacheSpecInit /\ [][CacheNext]_vars

-----------------------------------------------------------------------------
(* One run of the program that calls CacheStore::set only *)

PersistNext ==
    \/ cache_status = "unset" /\ get_cache
    \/ \E url \in CacheUrls : \E time \in {x \in Times : x <= now} :
          CacheSet(url, CachedEntry_new(url, "t1", time))
    \/ CacheWriteStart
    \/ \E whole \in BOOLEAN : CacheWriteEnd(whole)
    \/ \E time \in Times : Tick(time)

PersistSpec == CacheSpecInit /\ [][PersistNext]_vars

-----------------------------------------------------------------------------
(* The cache under a clock that may be set back *)

SkewNext ==
    \/ CacheNext
    \/ \E time \in Times : ClockBack(time)
    \/ \E url \in CacheUrls : CacheGetPanic(url)

SkewSpec == CacheSpecInit /\ [][SkewNext]_vars

-----------------------------------------------------------------------------
(* fetch_url_info_concurrent on its own *)

\* the listings of up to MaxLines lines
Listing(n) == [1..n -> PlaylistLines]

FastFetchInit ==
    /\ LoopInit
    /\ ProcessorInit(DefaultConcurrency)
    /\ CacheInit
    /\ \E url \in {YoutubeUrl, OtherUrl} : FetchInit(url)

FastFetchNext ==
    \/ \E ok \in BOOLEAN : \E parts \in VideoOutputs : VideoDone(ok, parts)
    \/ VideoElapsed
    \/ \E ok \in BOOLEAN : \E n \in 0..MaxLines : \E lines \in Listing(n) :
          PlaylistDone(ok, lines)
    \/ PlaylistElapsed
    \/ FetchReturn

FastFetchSpec == FastFetchInit /\ [][FastFetchNext]_vars

-----------------------------------------------------------------------------
(* Notions the properties below are stated with *)

StatusOf(s, id) == s.queue[FindItem(s.queue, id)].status

HasStatus(s, id, status) == HasItem(s.queue, id) /\ StatusOf(s, id) = status

\* the loop applies the AppEvent at the head of the channel, of type `type`
Applies(type) == HandleAppEvent /\ Head(app_rx).type = type

\* the loop processes the DownloadAction at the head of the channel, of type `type`
Processes(type) == HandleAction /\ Head(action_rx).type = type

IsTerminal(ev) == ev.type \in {"DownloadCompleted", "DownloadFailed"}

\* the terminal event of download task t has been sent and applied
TerminalApplied(t) ==
    /\ tasks[t].st = "done"
    /\ \A i \in 1..Len(app_rx) : ~(IsTerminal(app_rx[i]) /\ app_rx[i].task = t)

RunningTasksOf(id) == {t \in 1..Len(tasks) : tasks[t].id = id /\ tasks[t].st = "running"}

-----------------------------------------------------------------------------
(* C1 - C10 *)

\* C1: at most one download task per item identity is running at any instant
\* (a StartDownload that registers a handle over a registered one aborts the
\* task it replaces).
C1_OneRunningTaskPerItem == \A id \in Ids : Cardinality(RunningTasksOf(id)) <= 1

\* C2: CancelDownload applied to a Downloading item leaves it Cancelled with no
\* handle registered, and a ProgressUpdate applied to the item while it is
\* Cancelled changes nothing.
C2_ProgressAfterCancelIsNoOp ==
    [][/\ \A id \in Ids :
            Processes("CancelDownload") /\ Head(action_rx).id = id
                /\ HasStatus(state, id, "Downloading")
            => HasStatus(state', id, "Cancelled") /\ id \notin DOMAIN state'.running_tasks
       /\ \A id \in Ids :
            Applies("ProgressUpdate") /\ Head(app_rx).id = id
                /\ HasStatus(state, id, "Cancelled")
            => state' = state]_vars

\* C3: a DownloadFailed applied to an item the user has cancelled leaves it
\* Cancelled.
C3_CancelWinsOverFailure ==
    [][\A id \in Ids :
            Applies("DownloadFailed") /\ Head(app_rx).id = id
                /\ HasStatus(state, id, "Cancelled")
            => HasStatus(state', id, "Cancelled")]_vars

\* C4: no ProgressUpdate of a download task is applied after the terminal event
\* of that task, so its progress never moves a Completed item back to Downloading.
C4_ProgressBeforeTerminal ==
    [][Applies("ProgressUpdate") => ~TerminalApplied(Head(app_rx).task)]_vars

\* C5: an item-tagged event whose item is not in the queue leaves the queue,
\* the format popup and the error notice as they are.
C5_EventOfRemovedItemIgnored ==
    [][HandleAppEvent
            /\ Head(app_rx).type \in {"ProgressUpdate", "DownloadCompleted", "DownloadFailed",
                                      "FormatsFetched", "FormatsFetchFailed"}
            /\ ~HasItem(state.queue, Head(app_rx).id)
        => /\ state'.queue = state.queue
           /\ state'.format_popup = state.format_popup
           /\ state'.error_message = state.error_message]_vars

\* the key goes to handle_playlist_preview_input
PreviewHasKeys(s) ==
    ~IsSome(s.error_message) /\ ~IsSome(s.format_popup) /\ IsSome(s.playlist_preview)

\* the key goes to handle_navigation_mode
NavigationHasKeys(s) ==
    /\ ~IsSome(s.error_message) /\ ~IsSome(s.format_popup)
    /\ ~IsSome(s.playlist_preview) /\ ~s.input_mode

\* item id has left the queue and its RemoveItem action has been processed
Removed(s, arx, id) ==
    /\ ~HasItem(s.queue, id)
    /\ \A i \in 1..Len(arx) : ~(arx[i].type = "RemoveItem" /\ arx[i].id = id)

\* q2 is q1 with the items of `entries` appended in order, each with `status`
AppendsEntries(q1, q2, entries, status) ==
    /\ Len(q2) = Len(q1) + Len(entries)
    /\ SubSeq(q2, 1, Len(q1)) = q1
    /\ \A i \in 1..Len(entries) :
          /\ q2[Len(q1) + i].url = entries[i].url
          /\ q2[Len(q1) + i].title = Some(entries[i].title)
          /\ q2[Len(q1) + i].duration = entries[i].duration
          /\ q2[Len(q1) + i].status = status

\* C6: the 'd' key deletes the selected item from the queue and sends its
\* RemoveItem; processing RemoveItem leaves no handle registered under the id
\* and the task whose handle was registered is no longer running; with no
\* handle registered it changes nothing; and no handle is registered later
\* under the id of a removed item.  (A task whose handle StartDownload had
\* replaced is not registered: see C1.)
C6_RemoveItem ==
    [][/\ KeyEvent("d") /\ NavigationHasKeys(state) /\ Len(state.queue) > 0
          => LET id == state.queue[state.selected_index + 1].id
             IN  /\ state'.queue = RemoveAt(state.queue, state.selected_index + 1)
                 /\ ~HasItem(state'.queue, id)
                 /\ action_rx' = Append(action_rx, RemoveItem(id))
       /\ \A id \in Ids :
            Processes("RemoveItem") /\ Head(action_rx).id = id
            => /\ id \notin DOMAIN state'.running_tasks
               /\ id \in DOMAIN state.running_tasks
                    => tasks'[state.running_tasks[id]].st # "running"
               /\ id \notin DOMAIN state.running_tasks
                    => UNCHANGED <<state, tasks, app_rx, next_id, url_probes, fetch_probes>>
       /\ \A id \in 1..(next_id' - 1) :
            Removed(state', action_rx', id) => id \notin DOMAIN state'.running_tasks]_vars

\* a task aborted for an item that is removed, its RemoveItem processed
C6_Witness ==
    \E t \in 1..Len(tasks) :
        /\ tasks[t].st = "aborted"
        /\ Removed(state, action_rx, tasks[t].id)
        /\ tasks[t].id \notin DOMAIN state.running_tasks

\* C7: a ProgressUpdate applied to a queued item that is not Downloading
\* changes its status to Downloading and its progress to the snapshot, and
\* nothing else; applied to a Downloading item it changes the progress only.
C7_ProgressForcesDownloading ==
    [][\A id \in Ids :
            Applies("ProgressUpdate") /\ Head(app_rx).id = id /\ HasItem(state.queue, id)
            => LET i == FindItem(state.queue, id)
               IN  IF state.queue[i].status = "Downloading"
                   THEN state' = [state EXCEPT !.queue[i].progress = Head(app_rx).progress]
                   ELSE state' = [state EXCEPT !.queue[i].progress = Head(app_rx).progress,
                                               !.queue[i].status = "Downloading"]]_vars

\* an item is Downloading with a snapshot stored and no handle registered:
\* a progress event has moved it there from a terminal status
C7_Witness ==
    \E i \in 1..Len(state.queue) :
        /\ state.queue[i].status = "Downloading"
        /\ state.queue[i].progress > 0
        /\ state.queue[i].id \notin DOMAIN state.running_tasks

\* C8: a listing of N > 1 entries is sent as one PlaylistDetected and the
\* state is left alone; applying it leaves the queue alone and opens a preview
\* of exactly those entries; Enter on the preview appends exactly N Pending
\* items in listing order after the existing ones and closes it; Esc closes it
\* and leaves the queue alone.
C8_PlaylistPreview ==
    [][/\ \A p \in 1..Len(url_probes) : \A outcome \in UrlOutcomes :
            UrlProbeDone(p, outcome) /\ outcome.ok /\ Len(outcome.entries) > 1
            => /\ app_rx' = Append(app_rx, PlaylistDetected(outcome.entries))
               /\ state' = state
       /\ Applies("PlaylistDetected")
            => /\ state'.queue = state.queue
               /\ IsSome(state'.playlist_preview)
               /\ Unwrap(state'.playlist_preview).entries = Head(app_rx).entries
       /\ KeyEvent("Enter") /\ PreviewHasKeys(state)
            => /\ AppendsEntries(state.queue, state'.queue,
                                 Unwrap(state.playlist_preview).entries, "Pending")
               /\ state'.playlist_preview = None
       /\ KeyEvent("Esc") /\ PreviewHasKeys(state)
            => /\ state'.queue = state.queue
               /\ state'.playlist_preview = None]_vars

\* the two entries of a listing are the last items of the queue, Pending, in
\* listing order, and the preview is closed
C8_Witness ==
    /\ state.playlist_preview = None
    /\ Len(state.queue) >= 2
    /\ LET n == Len(state.queue)
       IN  /\ state.queue[n - 1].url = Entry1.url /\ state.queue[n - 1].status = "Pending"
           /\ state.queue[n].url = Entry2.url /\ state.queue[n].status = "Pending"

\* C9: a listing of one entry is sent as one SingleVideoDetected; applying it
\* appends exactly one item, Ready, with the entry's url, title and duration,
\* and leaves the playlist preview as it is.
C9_SingleVideo ==
    [][/\ \A p \in 1..Len(url_probes) : \A outcome \in UrlOutcomes :
            UrlProbeDone(p, outcome) /\ outcome.ok /\ Len(outcome.entries) = 1
            => /\ app_rx' = Append(app_rx, SingleVideoDetected(outcome.entries[1]))
               /\ state' = state
       /\ Applies("SingleVideoDetected")
            => /\ AppendsEntries(state.queue, state'.queue,
                                 <<[url |-> Head(app_rx).url, title |-> Head(app_rx).title,
                                    duration |-> Head(app_rx).duration]>>, "Ready")
               /\ state'.playlist_preview = state.playlist_preview]_vars

\* the queue holds a Ready item with the title and duration of the probed entry
C9_Witness ==
    \E i \in 1..Len(state.queue) :
        /\ state.queue[i].status = "Ready"
        /\ state.queue[i].url = Entry1.url
        /\ state.queue[i].title = Some(Entry1.title)
        /\ state.queue[i].duration = Entry1.duration
        /\ state.queue[i].format = None

\* C10: the task spawned for an AddUrl has sent exactly one outcome event once
\* it has finished, and the loading indicator is off once every submitted URL
\* has been answered and the answers applied.
C10_OneOutcomePerAddUrl ==
    /\ \A p \in 1..Len(url_probes) : url_probes[p].st = "done" => url_probes[p].events = 1
    /\ (/\ \A p \in 1..Len(url_probes) : url_probes[p].st = "done"
        /\ \A i \in 1..Len(action_rx) : action_rx[i].type # "AddUrl"
        /\ \A i \in 1..Len(app_rx) :
              app_rx[i].type \notin {"PlaylistDetected", "SingleVideoDetected",
                                     "PlaylistFetchFailed"})
       => ~state.is_loading

-----------------------------------------------------------------------------
(* C11 - C20 *)

HoldersOf(ws) == {w \in 1..Len(ws) : ws[w].pc = "probing"}

\* every task of the processor has ended
AllFinished == \A w \in 1..Len(workers) : workers[w].pc \in {"done", "aborted"}

\* C11: never more than max_concurrency tasks hold a permit; a task of
\* process_playlist_formats that asks for a permit while fewer than
\* max_concurrency are held can take it at once, and none takes one while
\* max_concurrency are held: a task that had to wait proceeds only after a
\* holder has given its permit back.
C11_PermitsBound ==
    [][/\ Cardinality(HoldersOf(workers')) <= max_concurrency
       /\ \A w \in 1..Len(workers) :
            /\ Acquire(w) => Cardinality(Holders) < max_concurrency
            /\ workers[w].kind = "batch" /\ workers[w].pc = "acquire"
                    /\ Cardinality(Holders) < max_concurrency
                => ENABLED Acquire(w)]_vars

\* max_concurrency + 1 entries were given, every task has got its permit and
\* max_concurrency of them hold one: the last one got the permit of a task
\* that has ended
C11_Witness ==
    /\ Cardinality(BatchWorkers) = max_concurrency + 1
    /\ \A w \in BatchWorkers : workers[w].probed
    /\ Cardinality(Holders \cap BatchWorkers) = max_concurrency

\* C12: the try-acquire of a prefetch task made while max_concurrency permits
\* are held ends the task at once: it gets no permit, makes no probe, sends no
\* event and leaves every other task and its permit as they are; a task that
\* ended without a probe has sent nothing.
C12_TryAcquireNoPermit ==
    [][/\ \A w \in 1..Len(workers) :
            TryAcquire(w) /\ Cardinality(Holders) = max_concurrency
            => /\ workers'[w].pc = "done"
               /\ ~workers'[w].probed
               /\ lim_tx' = lim_tx
               /\ semaphore' = semaphore
               /\ HoldersOf(workers') = Holders
               /\ \A v \in 1..Len(workers) : v # w => workers'[v] = workers[v]
       /\ \A w \in 1..Len(workers') :
            workers'[w].pc = "done" /\ ~workers'[w].probed => lim_tx'[w] = <<>>]_vars

\* a prefetch task has ended without a probe while every permit is held
C12_Witness ==
    /\ Cardinality(Holders) = max_concurrency
    /\ \E w \in PrefetchWorkers : workers[w].pc = "done" /\ ~workers[w].probed

\* C13: the permits held and the permits available add up to max_concurrency,
\* so all are available once every task has ended; when
\* process_playlist_formats has returned, every entry has exactly one event, a
\* FormatsFetched or a FormatsFetchFailed with its id; every task ends, and a
\* call of process_playlist_formats returns unless its caller drops it.
C13_PermitsReleased ==
    /\ [](semaphore + Cardinality(Holders) = max_concurrency)
    /\ [](AllFinished => semaphore = max_concurrency)
    /\ [](batch = "returned" =>
            \A w \in BatchWorkers :
                /\ Len(lim_tx[w]) = 1
                /\ lim_tx[w][1].type \in {"FormatsFetched", "FormatsFetchFailed"}
                /\ lim_tx[w][1].id = workers[w].id)
    /\ []<>AllFinished
    /\ (batch = "running") ~> (batch \in {"returned", "dropped"})

\* process_playlist_formats has returned from max_concurrency + 1 entries, one
\* of them failed, and every permit is available
C13_Witness ==
    /\ batch = "returned"
    /\ Cardinality(BatchWorkers) = max_concurrency + 1
    /\ \E w \in BatchWorkers : lim_tx[w][1].type = "FormatsFetchFailed"
    /\ AllFinished
    /\ semaphore = max_concurrency

\* C14: set(url, entry) stores the entry under url; a get(url) made while
\* fewer than ttl (24 hours of) seconds have passed since the timestamp of the
\* stored entry returns that entry, and a get made later returns nothing.
C14_CacheGetAfterSet ==
    [][/\ \A url \in CacheUrls : \A time \in Times :
            CacheSet(url, CachedEntry_new(url, "t1", time))
            => cache_entries'[url] = CachedEntry_new(url, "t1", time)
       /\ \A url \in CacheUrls :
            CacheGet(url) /\ url \in DOMAIN cache_entries
            => IF now < cache_entries[url].timestamp + 24 * 60 * 60
               THEN got' = Some(cache_entries[url])
               ELSE got' = None]_vars

\* a get has returned the stored entry in the last second of its 24 hours
C14_Witness ==
    /\ IsSome(got)
    /\ now = Unwrap(got).timestamp + 24 * 60 * 60 - 1
    /\ Unwrap(got).url \in DOMAIN cache_entries
    /\ cache_entries[Unwrap(got).url] = Unwrap(got)

\* the seconds a duration field stands for: S, M:S or H:M:S, and nothing
\* for a missing or unparseable one
SecondsOf(text) ==
    CASE text = Some(<<"1", ":", "0", "2">>) -> 62
      [] text = Some(<<"0", ":", "5", "8">>) -> 58
      [] text = Some(<<"5", "9">>) -> 59
      [] text = Some(<<"1", ":", "0", "1", ":", "0", "1">>) -> 3661
      [] OTHER -> 0

RECURSIVE SumSeconds(_)
SumSeconds(entries) ==
    IF Len(entries) = 0 THEN 0
    ELSE SecondsOf(Head(entries).duration) + SumSeconds(Tail(entries))

\* a number below 100 in decimal
Dec(n) ==
    IF n < 10 THEN <<Digits[n + 1]>> ELSE <<Digits[(n \div 10) + 1], Digits[(n % 10) + 1]>>

\* 'Hh Mm Ss' from one hour on, 'Mm Ss' from one minute on, 'Ss' below
DurationText(total) ==
    LET h == total \div 3600
        m == (total % 3600) \div 60
        s == total % 60
    IN  IF total >= 3600
        THEN Dec(h) \o <<"h", " ">> \o Dec(m) \o <<"m", " ">> \o Dec(s) \o <<"s">>
        ELSE IF total >= 60
        THEN Dec(m) \o <<"m", " ">> \o Dec(s) \o <<"s">>
        ELSE Dec(s) \o <<"s">>

\* C15: the total_duration of an open playlist preview is the text of the sum
\* of the seconds of its entries' durations (missing and unparseable ones add
\* nothing); 1:02, 0:58 and a missing one give '2m 0s'; with every duration
\* missing there is none.
C15_AggregateDuration ==
    IsSome(state.playlist_preview) =>
        LET preview == Unwrap(state.playlist_preview)
            total == SumSeconds(preview.entries)
        IN  /\ total > 0 => preview.total_duration = Some(DurationText(total))
            /\ (\A i \in 1..Len(preview.entries) : preview.entries[i].duration = None)
                    => preview.total_duration = None
            /\ [i \in 1..Len(preview.entries) |-> preview.entries[i].duration]
                    = <<Some(<<"1", ":", "0", "2">>), Some(<<"0", ":", "5", "8">>), None>>
                    => preview.total_duration = Some(<<"2", "m", " ", "0", "s">>)

\* the preview of 1:01:01, 0:58 and a missing duration shows '1h 1m 59s'
C15_Witness ==
    /\ IsSome(state.playlist_preview)
    /\ [i \in 1..Len(Unwrap(state.playlist_preview).entries) |->
            Unwrap(state.playlist_preview).entries[i].duration]
        = <<Some(<<"1", ":", "0", "1", ":", "0", "1">>), Some(<<"0", ":", "5", "8">>), None>>
    /\ Unwrap(state.playlist_preview).total_duration
        = Some(<<"1", "h", " ", "1", "m", " ", "5", "9", "s">>)

\* C16: processing a CancelDownload for an id with no handle registered
\* changes no item, leaves the registry as it is and sends no event.
C16_CancelWithoutHandle ==
    [][\A id \in Ids :
            Processes("CancelDownload") /\ Head(action_rx).id = id
                /\ id \notin DOMAIN state.running_tasks
            => /\ state'.queue = state.queue
               /\ state'.running_tasks = state.running_tasks
               /\ app_rx' = app_rx]_vars

\* the probe and download tasks the loop has spawned that have not ended
InFlight ==
    Cardinality({p \in 1..Len(url_probes) : url_probes[p].st = "running"})
    + Cardinality({x \in Ids \X (1..MaxWork) : x[2] <= fetch_probes[x[1]]})
    + Cardinality({t \in 1..Len(tasks) : tasks[t].st = "running"})

\* C17: the tasks of the loop in flight are no more than the permits of the
\* limiter (8), each of them holding one of its permits.
C17_LoopTasksHoldPermits ==
    /\ InFlight <= DefaultConcurrency
    /\ InFlight <= max_concurrency - semaphore

\* C18: processing a FetchFormats for an item whose url has a live entry in
\* the cache starts no probe.
C18_CacheHitSkipsProbe ==
    [][\A id \in Ids :
            Processes("FetchFormats") /\ Head(action_rx).id = id
                /\ HasItem(state.queue, id)
                /\ IsSome(CacheStore_get(cache_entries, now,
                                         state.queue[FindItem(state.queue, id)].url))
            => fetch_probes' = fetch_probes]_vars

\* C19: applying DownloadCompleted to a queued item leaves it Completed,
\* applying DownloadFailed leaves it Failed with the error of the event, and
\* either leaves no handle registered under its id.
C19_TerminalEvents ==
    [][\A id \in Ids :
            /\ Applies("DownloadCompleted") /\ Head(app_rx).id = id /\ HasItem(state.queue, id)
               => /\ HasStatus(state', id, "Completed")
                  /\ id \notin DOMAIN state'.running_tasks
            /\ Applies("DownloadFailed") /\ Head(app_rx).id = id /\ HasItem(state.queue, id)
               => /\ HasStatus(state', id, "Failed")
                  /\ state'.queue[FindItem(state'.queue, id)].error = Some(Head(app_rx).error)
                  /\ id \notin DOMAIN state'.running_tasks]_vars

\* an item is Failed with the error of its download and no handle registered
C19_Witness ==
    \E i \in 1..Len(state.queue) :
        /\ state.queue[i].status = "Failed"
        /\ state.queue[i].error = Some("Download failed")
        /\ state.queue[i].id \notin DOMAIN state.running_tasks

\* C20: an item that is Completed, Failed or Cancelled has no handle
\* registered under its id and no download task running for it.
C20_TerminalItemHasNoTask ==
    \A i \in 1..Len(state.queue) :
        state.queue[i].status \in {"Completed", "Failed", "Cancelled"}
        => /\ state.queue[i].id \notin DOMAIN state.running_tasks
           /\ RunningTasksOf(state.queue[i].id) = {}

-----------------------------------------------------------------------------
(* C21 - C30 *)

\* C21: processing a FetchFormats for an item that is Downloading, Completed,
\* Cancelled or FetchingInfo leaves its status as it is and starts no probe.
C21_FetchOnlyFromIdle ==
    [][\A id \in Ids :
            Processes("FetchFormats") /\ Head(action_rx).id = id
                /\ HasItem(state.queue, id)
                /\ StatusOf(state, id) \in {"Downloading", "Completed", "Cancelled", "FetchingInfo"}
            => /\ StatusOf(state', id) = StatusOf(state, id)
               /\ fetch_probes' = fetch_probes]_vars

\* C22: applying FormatsFetched or FormatsFetchFailed to an item that is not
\* FetchingInfo leaves its status as it is, so a Downloading item stays
\* Downloading.
C22_ProbeOutcomeOnlyWhenFetching ==
    [][\A id \in Ids :
            (Applies("FormatsFetched") \/ Applies("FormatsFetchFailed"))
                /\ Head(app_rx).id = id
                /\ HasItem(state.queue, id)
                /\ StatusOf(state, id) # "FetchingInfo"
            => StatusOf(state', id) = StatusOf(state, id)]_vars

\* the format under the cursor of the popup, among the formats it shows
SelectedFormat(popup) ==
    SelectSeq(popup.formats, LAMBDA f : IsShown(popup, f))[popup.selected_index + 1]

\* Enter is pressed while the format popup has the keyboard and its cursor is
\* on a format
ConfirmsFormat ==
    /\ KeyEvent("Enter")
    /\ state.error_message = None
    /\ IsSome(state.format_popup)
    /\ Unwrap(state.format_popup).selected_index
         < Len(SelectSeq(Unwrap(state.format_popup).formats,
                         LAMBDA f : IsShown(Unwrap(state.format_popup), f)))

\* C23: Enter in the format popup gives the format under the cursor to the
\* item of the popup, closes the popup and sends StartDownload for the item;
\* processing a StartDownload for a queued item that has a format leaves the item
\* Downloading with the handle of a freshly spawned task registered under its
\* id; processing one for an item without a format, or for an id not in the
\* queue, spawns no task and changes no state.
C23_ConfirmThenStart ==
    [][/\ ConfirmsFormat
          => LET popup == Unwrap(state.format_popup)
             IN  /\ state'.format_popup = None
                 /\ action_rx' = Append(action_rx, StartDownload(popup.item_id))
                 /\ HasItem(state.queue, popup.item_id)
                    => state'.queue[FindItem(state'.queue, popup.item_id)].format
                         = Some(SelectedFormat(popup))
       /\ \A id \in Ids :
            Processes("StartDownload") /\ Head(action_rx).id = id
            => IF HasItem(state.queue, id)
                    /\ IsSome(state.queue[FindItem(state.queue, id)].format)
               THEN /\ HasStatus(state', id, "Downloading")
                    /\ id \in DOMAIN state'.running_tasks
                    /\ state'.running_tasks[id] = Len(tasks')
                    /\ Len(tasks') = Len(tasks) + 1
                    /\ tasks'[Len(tasks')].id = id
                    /\ tasks'[Len(tasks')].st = "running"
               ELSE /\ state' = state
                    /\ tasks' = tasks
                    /\ app_rx' = app_rx]_vars

\* an item is Downloading in the format chosen in the popup, the popup is
\* closed, and the handle registered under its id is that of a running task
C23_Witness ==
    /\ state.format_popup = None
    /\ \E i \in 1..Len(state.queue) :
        /\ state.queue[i].status = "Downloading"
        /\ IsSome(state.queue[i].format)
        /\ state.queue[i].id \in DOMAIN state.running_tasks
        /\ tasks[state.running_tasks[state.queue[i].id]].st = "running"
        /\ Cardinality(RunningTasksOf(state.queue[i].id)) = 1

\* C24: processing a CancelDownload for an item that is neither Downloading
\* nor Paused leaves its status as it is: a Completed or Failed item is not
\* turned Cancelled.
C24_CancelOnlyWhenActive ==
    [][\A id \in Ids :
            Processes("CancelDownload") /\ Head(action_rx).id = id
                /\ HasItem(state.queue, id)
                /\ StatusOf(state, id) \notin {"Downloading", "Paused"}
            => StatusOf(state', id) = StatusOf(state, id)]_vars

\* C25: processing a PauseDownload for a Downloading item leaves it Paused,
\* processing a ResumeDownload for a Paused item leaves it Downloading, and
\* neither changes anything else of the state.
C25_PauseResume ==
    [][\A id \in Ids :
            /\ Processes("PauseDownload") /\ Head(action_rx).id = id
                    /\ HasStatus(state, id, "Downloading")
               => state' = [state EXCEPT !.queue[FindItem(state.queue, id)].status = "Paused"]
            /\ Processes("ResumeDownload") /\ Head(action_rx).id = id
                    /\ HasStatus(state, id, "Paused")
               => state' = [state EXCEPT !.queue[FindItem(state.queue, id)].status
                                            = "Downloading"]]_vars

ErrorOf(s, id) == s.queue[FindItem(s.queue, id)].error

\* C26: the error text of an item stays as it is while the item is in the
\* queue, except when a failure event gives it one and when its formats are
\* probed again; a FormatsFetched applied to a queued item leaves it Ready
\* with no error text.
C26_ReprobeClearsError ==
    [][\A id \in Ids :
            /\ HasItem(state.queue, id) /\ HasItem(state'.queue, id)
                    /\ ~(Processes("FetchFormats") /\ Head(action_rx).id = id)
                    /\ ~(HandleAppEvent
                            /\ Head(app_rx).type
                                \in {"FormatsFetched", "FormatsFetchFailed", "DownloadFailed"}
                            /\ Head(app_rx).id = id)
               => ErrorOf(state', id) = ErrorOf(state, id)
            /\ Applies("FormatsFetched") /\ Head(app_rx).id = id /\ HasItem(state.queue, id)
               => /\ HasStatus(state', id, "Ready")
                  /\ ErrorOf(state', id) = None]_vars

\* the step is one in which download task t sends an event to the loop
Emits(t) ==
    \/ ForwardProgress(t)
    \/ \E ok \in BOOLEAN : \E keep \in 0..Len(tasks[t].buf) : DownloadDone(t, ok, keep)

\* C27: a download task sends its terminal event once, as its last step
\* unless it is aborted first, whether or not it has reported progress; a task
\* that has been aborted sends no event.
C27_OneTerminalNoEventAfterAbort ==
    [][\A t \in 1..Len(tasks) :
            /\ tasks[t].st = "done"
               => ~(\E ok \in BOOLEAN : \E keep \in 0..Len(tasks[t].buf) : DownloadDone(t, ok, keep))
            /\ tasks[t].st = "aborted" => ~Emits(t)]_vars

\* the collection task has returned more than one entry within its timeout
PlaylistValid == playlist_fetch.st = "ok" /\ Len(playlist_fetch.out) > 1

C29_InvalidateAndClear ==
    [][/\ \A url \in CacheUrls :
            CacheInvalidate(url)
            => /\ CacheStore_get(cache_entries', now', url) = None
               /\ \A other \in CacheUrls \ {url} :
                    CacheStore_get(cache_entries', now', other)
                        = CacheStore_get(cache_entries, now, other)
       /\ CacheClear
            => \A url \in CacheUrls : CacheStore_get(cache_entries', now', url) = None
       /\ \A url \in CacheUrls :
            get_cache /\ cache_status = "running" /\ url \notin DOMAIN cache_entries
            => CacheStore_get(cache_entries', now', url) = None]_vars

\* C30: get_cache on a cache file that is absent, unreadable or corrupt leaves
\* the process with a running, empty cache.
C30_CacheCreationNeverFatal ==
    [][get_cache /\ cache_file.kind \in {"absent", "unreadable", "corrupt"}
            => cache_status' = "running" /\ cache_entries' = <<>>]_vars

\* C31: no two jobs of CacheStore::set write the cache file at the same time,
\* and when no job is left the file holds the JSON of the map as the last set
\* has left it.
C31_PersistenceJobsDoNotRace ==
    /\ cache_writers <= 1
    /\ cache_status = "running" /\ cache_jobs = 0 /\ cache_writers = 0
            /\ cache_entries # <<>>
       => cache_file = CacheFile("json", cache_entries)

\* C32: a get of an entry captured later than the clock reads leaves the
\* process running, returns the entry or nothing, and computes an age that has
\* not wrapped around (no age is above the clock reading).
C32_GetNeverUnderflows ==
    [][\A url \in CacheUrls :
            (CacheGet(url) \/ CacheGetPanic(url))
                /\ url \in DOMAIN cache_entries
                /\ cache_entries[url].timestamp > now
            => /\ cache_status' = "running"
               /\ got' \in {None, Some(cache_entries[url])}
               /\ WrappingSub(now, cache_entries[url].timestamp) <= now]_vars

\* the step is one of a background task: a probe of a url, a probe of the
\* formats of an item, a download task or a progress forwarder
BackgroundStep ==
    \/ \E p \in 1..Len(url_probes) : \E outcome \in UrlOutcomes : UrlProbeDone(p, outcome)
    \/ \E id \in Ids : \E ok \in BOOLEAN : FetchProbeDone(id, ok)
    \/ \E t \in 1..Len(tasks) : DownloadProgress(t)
    \/ \E t \in 1..Len(tasks) : ForwardProgress(t)
    \/ \E t \in 1..Len(tasks) : \E ok \in BOOLEAN : \E keep \in 0..Len(tasks[t].buf) :
          DownloadDone(t, ok, keep)

\* C33: a step of a background task leaves the AppState (queue, items, task
\* registry, popups) and the action channel as they are and at most appends
\* events to the event channel; the AppState changes only in steps of the input
\* layer and of the control loop, and the loop applies the events one at a time,
\* oldest first.
C33_OnlyTheLoopMutatesState ==
    [][/\ BackgroundStep
          => /\ state' = state
             /\ action_rx' = action_rx
             /\ Len(app_rx') >= Len(app_rx)
             /\ SubSeq(app_rx', 1, Len(app_rx)) = app_rx
       /\ state' # state
          => (\E key \in KeyCodes : KeyEvent(key)) \/ HandleAction \/ HandleAppEvent
       /\ HandleAppEvent
          => /\ app_rx' = Tail(app_rx)
             /\ state' = handle_app_event(Head(app_rx), state, next_id).state]_vars

\* a ProgressUpdate waits in the channel while the item still shows the
\* progress it had before
C33_Witness ==
    \E i \in 1..Len(app_rx) :
        /\ app_rx[i].type = "ProgressUpdate"
        /\ HasItem(state.queue, app_rx[i].id)
        /\ state.queue[FindItem(state.queue, app_rx[i].id)].progress # app_rx[i].progress
        /\ tasks[app_rx[i].task].sent > 0

\* C34: an item that is Downloading has a format.
C34_DownloadingHasFormat ==
    \A i \in 1..Len(state.queue) :
        state.queue[i].status = "Downloading" => IsSome(state.queue[i].format)

\* an item is Downloading, with a format, and its task has reported progress
C34_Witness ==
    \E i \in 1..Len(state.queue) :
        /\ state.queue[i].status = "Downloading"
        /\ IsSome(state.queue[i].format)
        /\ state.queue[i].progress > 0

\* a RemoveItem(id) waits in the action channel
RemovePending(id) ==
    \E i \in 1..Len(action_rx) : action_rx[i] = RemoveItem(id)

\* C35: an id with a handle registered is the id of a queued item, or of an
\* item the input layer has deleted whose RemoveItem waits in the action
\* channel; with the action channel empty every registered id is in the queue.
C35_HandlesBelongToQueue ==
    /\ \A id \in DOMAIN state.running_tasks :
            HasItem(state.queue, id) \/ RemovePending(id)
    /\ Len(action_rx) = 0
       => \A id \in DOMAIN state.running_tasks : HasItem(state.queue, id)

\* the item of a registered handle has been deleted and its RemoveItem waits
C35_Witness ==
    \E id \in DOMAIN state.running_tasks :
        ~HasItem(state.queue, id) /\ RemovePending(id)

\* C36: the cursor is below the length of a queue that has items, and 0 on an
\* empty queue.
C36_CursorInRange ==
    IF Len(state.queue) = 0
    THEN state.selected_index = 0
    ELSE state.selected_index < Len(state.queue)

\* the second of two items has been deleted under the cursor: the cursor is
\* on the first, which is the last now
C36_Witness ==
    /\ Len(state.queue) = 1
    /\ state.queue[1].id = 1
    /\ next_id >= 3
    /\ RemovePending(2)
    /\ state.selected_index = 0

\* C37: the item of an open format popup is in the queue.
C37_PopupItemInQueue ==
    IsSome(state.format_popup) => HasItem(state.queue, Unwrap(state.format_popup).item_id)

\* the popup is open for the second item of the queue
C37_Witness ==
    /\ IsSome(state.format_popup)
    /\ Len(state.queue) >= 2
    /\ state.queue[2].id = Unwrap(state.format_popup).item_id

\* C38: while a probe spawned for an AddUrl is running the loading indicator
\* is on.
C38_LoadingWhileProbing ==
    (\E p \in 1..Len(url_probes) : url_probes[p].st = "running") => state.is_loading

\* the duration text parses as S, M:S or H:M:S
Parses(duration) == IsSome(duration) /\ IsSome(parse_duration_to_seconds(Unwrap(duration)))

\* C39: an open playlist preview shows a total_duration exactly when one of
\* its entries has a duration that parses; when those that parse are all zero
\* seconds long it shows '0s'.
C39_AggregateIffParseable ==
    IsSome(state.playlist_preview) =>
        LET preview == Unwrap(state.playlist_preview)
            parsed == {i \in 1..Len(preview.entries) : Parses(preview.entries[i].duration)}
        IN  /\ IsSome(preview.total_duration) <=> parsed # {}
            /\ parsed # {} /\ SumSeconds(preview.entries) = 0
               => preview.total_duration = Some(<<"0", "s">>)

====
